---- MODULE Spec2Model ----
(***************************************************************************)
(* A model of autoMusicDown: the download engine (downloader.py), the      *)
(* library existence checkers (navidrome.py, mysql_check.py), the          *)
(* notifier (bark.py) and the sync orchestrator (main.py).                 *)
(*                                                                         *)
(* Python strings are sequences of one-character strings, so that          *)
(* sanitising, stripping, lower-casing, splitting and substring search     *)
(* are computed the way the code computes them.                            *)
(***************************************************************************)
EXTENDS Integers, Sequences, FiniteSets, TLC

VARIABLES
  files,            \* the download directory: file name -> [size, content]
  file_hash_cache,  \* SongDownloader.file_hash_cache: file name -> hash
  call,             \* the last download_song call: arguments and outcome
  before,           \* the download_song call before it, if it fetched the file
  ncalls,           \* how many download_song calls were made
  ds,               \* the download_songs loop
  chk,              \* an existence-checker call: its inputs and its answer
  batch,            \* download_batch_async: semaphore, tasks, results
  rt,               \* run_task: position, lists, notifications
  fn                \* a helper of the program called on its own: inputs, outcome

vars == <<files, file_hash_cache, call, before, ncalls, ds, chk, batch, rt, fn>>

-----------------------------------------------------------------------------
(* Bounds of the model *)

MaxCalls == 2
MaxInitFiles == 1

-----------------------------------------------------------------------------
(* Strings *)

UpperChars == <<"A", "B", "C", "D", "E", "F", "G", "H", "I", "J", "K", "L", "M",
                "N", "O", "P", "Q", "R", "S", "T", "U", "V", "W", "X", "Y", "Z">>
LowerChars == <<"a", "b", "c", "d", "e", "f", "g", "h", "i", "j", "k", "l", "m",
                "n", "o", "p", "q", "r", "s", "t", "u", "v", "w", "x", "y", "z">>

LowerChar(c) ==
  IF \E i \in 1..Len(UpperChars) : UpperChars[i] = c
  THEN LowerChars[CHOOSE i \in 1..Len(UpperChars) : UpperChars[i] = c]
  ELSE c

\* str.lower()
StrLower(s) == [i \in 1..Len(s) |-> LowerChar(s[i])]

RECURSIVE StrLStrip(_, _)
StrLStrip(s, cs) ==
  IF s # <<>> /\ Head(s) \in cs THEN StrLStrip(Tail(s), cs) ELSE s

RECURSIVE StrRStrip(_, _)
StrRStrip(s, cs) ==
  IF s # <<>> /\ s[Len(s)] \in cs THEN StrRStrip(SubSeq(s, 1, Len(s) - 1), cs) ELSE s

\* str.strip(chars)
StrStrip(s, cs) == StrRStrip(StrLStrip(s, cs), cs)

Whitespace == {" "}

\* sub in s
StrContains(s, sub) ==
  \E i \in 0..(Len(s) - Len(sub)) : SubSeq(s, i + 1, i + Len(sub)) = sub

RECURSIVE StrJoin(_, _)
StrJoin(parts, sep) ==
  IF parts = <<>> THEN <<>>
  ELSE IF Len(parts) = 1 THEN parts[1]
  ELSE parts[1] \o sep \o StrJoin(Tail(parts), sep)

\* the empty mapping (a dict with no key)
EmptyMap == [k \in {} |-> k]

Abs(n) == IF n < 0 THEN 0 - n ELSE n

-----------------------------------------------------------------------------
(* The upstream catalogue: what get_song_detail and get_song_url answer   *)
(* for the tracks of the model when the call succeeds.                     *)

TrackIds == {1, 2}

\* songs[0] of get_song_detail: name, ar (artist names), al.name, dt (ms)
SongDetail(music_id) ==
  IF music_id = 1
  THEN [name |-> <<"x">>, ar |-> << <<"A">> >>, al |-> <<"L">>, dt |-> 1000]
  ELSE [name |-> <<"y">>, ar |-> << <<"A">>, <<"B">> >>, al |-> <<"L">>, dt |-> 2000]

\* data[0] of get_song_url: url, type, size; the answer depends on the quality
SongUrl(music_id, quality) ==
  IF quality = "standard"
  THEN [url |-> <<"u", ".", "m", "p", "3">>, type |-> <<"m", "p", "3">>, size |-> 400]
  ELSE IF music_id = 1
  THEN [url |-> <<"u", ".", "F", "L", "A", "C">>, type |-> <<"f", "l", "a", "c">>, size |-> 1000]
  ELSE [url |-> <<"u">>, type |-> <<"f", "l", "a", "c">>, size |-> 1000]

-----------------------------------------------------------------------------
(* downloader.py: names, extensions, upstream lookups *)

MaxFilenameLen == 200

IllegalChars == {"<", ">", ":", "\"", "/", "\\", "|", "?", "*"}

StrUnknown == <<"u", "n", "k", "n", "o", "w", "n">>

\* SongDownloader._sanitize_filename
sanitize_filename(filename) ==
  LET replaced == [i \in 1..Len(filename) |->
                     IF filename[i] \in IllegalChars THEN "_" ELSE filename[i]]
      stripped == StrStrip(replaced, {" ", "."})
      cut == IF Len(stripped) > MaxFilenameLen
             THEN SubSeq(stripped, 1, MaxFilenameLen) ELSE stripped
  IN IF cut = <<>> THEN StrUnknown ELSE cut

ExtMp3 == <<".", "m", "p", "3">>
ExtFlac == <<".", "f", "l", "a", "c">>
ExtM4a == <<".", "m", "4", "a">>

\* SongDownloader._determine_file_extension
determine_file_extension(url, content_type) ==
  LET u == StrLower(url)
      ct == StrLower(content_type)
  IN IF StrContains(u, ExtFlac) THEN ExtFlac
     ELSE IF StrContains(u, ExtMp3) THEN ExtMp3
     ELSE IF StrContains(u, ExtM4a) THEN ExtM4a
     ELSE IF StrContains(ct, <<"f", "l", "a", "c">>) THEN ExtFlac
     ELSE IF StrContains(ct, <<"m", "p", "e", "g">>) \/ StrContains(ct, <<"m", "p", "3">>)
          THEN ExtMp3
     ELSE IF StrContains(ct, <<"m", "p", "4">>) \/ StrContains(ct, <<"m", "4", "a">>)
          THEN ExtM4a
     ELSE ExtMp3

\* What one upstream call can answer.
UrlAnswers == {"ok", "raise", "no_data", "no_url"}     \* NeteaseMusic.get_song_url
DetailAnswers == {"ok", "raise", "no_songs"}           \* NeteaseMusic.get_song_detail
LyricAnswers == {"ok", "raise"}                        \* NeteaseMusic.get_lyric

\* The answers to the three lookups of one get_music_info call. A lookup
\* that is not reached has no answer of its own: it is listed as "ok".
InfoAnswers ==
  {[url |-> u, detail |-> "ok", lyric |-> "ok"] : u \in UrlAnswers \ {"ok"}}
  \cup {[url |-> "ok", detail |-> d, lyric |-> "ok"] : d \in DetailAnswers \ {"ok"}}
  \cup {[url |-> "ok", detail |-> "ok", lyric |-> l] : l \in LyricAnswers}

NoInfo == [id |-> 0, name |-> <<>>, artists |-> <<>>, album |-> <<>>, duration |-> 0,
           download_url |-> <<>>, file_type |-> <<>>, file_size |-> 0, quality |-> ""]

\* a lookup that never raises and returns the empty record on any failure
get_music_info_lenient(music_id, quality, ans) ==
  [raised |-> FALSE, exc |-> "", msg |-> <<>>, info |-> NoInfo]

\* SongDownloader.get_music_info: a MusicInfo, or DownloadException raised
get_music_info(music_id, quality, ans) ==
  LET song_data == SongUrl(music_id, quality)
      song_detail == SongDetail(music_id)
      raise(m) == [raised |-> TRUE, exc |-> "DownloadException", msg |-> m, info |-> NoInfo]
  IN IF ans.url = "raise" THEN raise(<<"api_call_failed">>)
     ELSE IF ans.url = "no_data" THEN raise(<<"info_error", "no_play_link">>)
     ELSE IF ans.url = "no_url" THEN raise(<<"info_error", "no_download_url">>)
     ELSE IF ans.detail = "raise" THEN raise(<<"api_call_failed">>)
     ELSE IF ans.detail = "no_songs" THEN raise(<<"info_error", "no_detail">>)
     ELSE IF ans.lyric = "raise" THEN raise(<<"api_call_failed">>)
     ELSE [raised |-> FALSE, exc |-> "", msg |-> <<>>,
           info |-> [id |-> music_id,
                     name |-> song_detail.name,
                     artists |-> StrJoin(song_detail.ar, <<"/">>),
                     album |-> song_detail.al,
                     duration |-> song_detail.dt \div 1000,
                     download_url |-> song_data.url,
                     file_type |-> StrLower(song_data.type),
                     file_size |-> song_data.size,
                     quality |-> quality]]

\* f"{music_info.artists} - {music_info.name}"
BaseFilename(info) == info.artists \o <<" ", "-", " ">> \o info.name

\* the path download_music_file writes: sanitized name + extension of the URL
TargetPath(info) ==
  sanitize_filename(BaseFilename(info)) \o determine_file_extension(info.download_url, <<>>)

-----------------------------------------------------------------------------
(* downloader.py: the local integrity verifier *)

DigitChars == <<"0", "1", "2", "3", "4", "5", "6", "7", "8", "9">>

RECURSIVE IntToStr(_)
IntToStr(n) ==
  IF n < 10 THEN <<DigitChars[n + 1]>>
  ELSE IntToStr(n \div 10) \o <<DigitChars[(n % 10) + 1]>>

\* hashlib.md5(...).hexdigest(), taken to be collision-free
Md5(bytes) == <<"md5">> \o bytes

\* SongDownloader._calculate_file_hash: the hash of the part of the file it
\* reads (content is that part)
calculate_file_hash(file_path, fs) == Md5(fs[file_path].content)

\* hash_str of _calculate_expected_hash
IdentityString(music_info) ==
  IntToStr(music_info.id) \o <<"_">> \o music_info.name \o <<"_">>
  \o music_info.artists \o <<"_">> \o music_info.album \o <<"_">>
  \o IntToStr(music_info.duration)

\* SongDownloader._calculate_expected_hash
calculate_expected_hash(music_info) == Md5(IdentityString(music_info))

\* a comparison that reads the file again whatever the cache holds
compare_file_hash_uncached(file_path, music_info, fs, cache) ==
  LET file_hash == calculate_file_hash(file_path, fs)
  IN [ret |-> file_hash = calculate_expected_hash(music_info),
      cache |-> (file_path :> file_hash) @@ cache,
      hashed |-> TRUE]

\* SongDownloader._compare_file_hash: [ret, cache, hashed]
compare_file_hash(file_path, music_info, fs, cache) ==
  LET cached == file_path \in DOMAIN cache
      file_hash == IF cached THEN cache[file_path] ELSE calculate_file_hash(file_path, fs)
      cache2 == IF cached THEN cache ELSE (file_path :> file_hash) @@ cache
  IN [ret |-> file_hash = calculate_expected_hash(music_info),
      cache |-> cache2,
      hashed |-> ~cached]

\* size_diff_ratio < 0.01
WithinTolerance(file_size, expected_size) ==
  Abs(file_size - expected_size) * 100 < expected_size

\* the verifier without its test of the size
verify_file_integrity_hash_only(file_path, music_info, fs, cache) ==
  compare_file_hash(file_path, music_info, fs, cache)

\* SongDownloader._verify_file_integrity: [ret, cache, hashed]
verify_file_integrity(file_path, music_info, fs, cache) ==
  LET file_size == fs[file_path].size
      expected_size == music_info.file_size
  IN IF expected_size > 0 /\ WithinTolerance(file_size, expected_size)
     THEN [ret |-> TRUE, cache |-> cache, hashed |-> FALSE]
     ELSE compare_file_hash(file_path, music_info, fs, cache)

possible_extensions == <<ExtMp3, ExtFlac, ExtM4a>>

NoPath == <<>>

\* the loop of is_song_already_downloaded_by_id over possible_extensions,
\* from extension number k on
RECURSIVE ScanExtensions(_, _, _, _, _)
ScanExtensions(k, safe_filename, music_info, fs, cache) ==
  IF k > Len(possible_extensions)
  THEN [ret |-> FALSE, cache |-> cache, matched |-> NoPath]
  ELSE LET file_path == safe_filename \o possible_extensions[k]
       IN IF file_path \in DOMAIN fs
          THEN LET v == verify_file_integrity(file_path, music_info, fs, cache)
               IN IF v.ret
                  THEN [ret |-> TRUE, cache |-> v.cache, matched |-> file_path]
                  ELSE ScanExtensions(k + 1, safe_filename, music_info, fs, v.cache)
          ELSE ScanExtensions(k + 1, safe_filename, music_info, fs, cache)

\* SongDownloader.is_song_already_downloaded_by_id: [ret, cache, matched]
is_song_already_downloaded_by_id(song_id, quality, ans, fs, cache) ==
  LET mi == get_music_info(song_id, quality, ans)
  IN IF mi.raised
     THEN [ret |-> FALSE, cache |-> cache, matched |-> NoPath]
     ELSE ScanExtensions(1, sanitize_filename(BaseFilename(mi.info)), mi.info, fs, cache)

\* SongDownloader.is_song_already_downloaded: a track without an id is
\* not downloaded; otherwise the answer of the check by id
is_song_already_downloaded(song, quality, ans, fs, cache) ==
  IF song.id = 0 THEN FALSE
  ELSE is_song_already_downloaded_by_id(song.id, quality, ans, fs, cache).ret

-----------------------------------------------------------------------------
(* downloader.py: download_music_file and download_song *)

\* DownloadResult(success, file_path, file_size, error_message)
DownloadResult(success, file_path, file_size, error_message) ==
  [success |-> success, file_path |-> file_path, file_size |-> file_size,
   error_message |-> error_message]

\* a failed result that says nothing of its cause
FailedSilently(error_message) == DownloadResult(FALSE, NoPath, 0, <<>>)

Failed(error_message) == DownloadResult(FALSE, NoPath, 0, error_message)

\* How the transfer of the audio bytes can end: all bytes written, the
\* request refused (requests.get or raise_for_status raises), or the
\* connection lost while the chunks are written to the opened file.
NetOutcomes == {"ok", "http_error", "broken"}

\* What _write_music_tags adds to the written file (0: nothing was saved).
TagGrowth == {0, 10}

AudioBytes(music_id) == <<"a", "u", "d", "i", "o">> \o IntToStr(music_id)

\* SongDownloader._write_music_tags: the file after the tags were saved;
\* it swallows every exception of the tag and cover code
write_music_tags(file, growth) ==
  IF growth = 0 THEN file
  ELSE [size |-> file.size + growth, content |-> <<"t", "a", "g">> \o file.content]

\* One end of download_music_file: a result returned or DownloadException
\* raised, with the directory, the cache and the number of byte transfers.
\*   net: how the transfer of the bytes ended ("none": no transfer)
\*   tags: whether _write_music_tags saved the tags ("none": not called)
FileEnd(raised, msg, result, fs, cache, n) ==
  [raised |-> raised, msg |-> msg, result |-> result, files |-> fs,
   cache |-> cache, transfers |-> n, net |-> "none", tags |-> "none"]

\* the outcome of _write_music_tags for what it added to the file
TagsOutcome(growth) == IF growth = 0 THEN "failed" ELSE "saved"

\* the transfer with a tag writer whose failure ends the download
transfer_file_tags_fatal(music_id, info, file_path, net, growth, fs, cache) ==
  LET written == [size |-> info.file_size, content |-> AudioBytes(music_id)]
      tagged == write_music_tags(written, growth)
      fs2 == (file_path :> tagged) @@ fs
  IN IF growth = 0
     THEN [FileEnd(FALSE, <<>>, Failed(<<"download_error">>), fs2, cache, 1)
             EXCEPT !.net = "ok", !.tags = "failed"]
     ELSE [FileEnd(FALSE, <<>>, DownloadResult(TRUE, file_path, tagged.size, <<>>),
                   fs2, (file_path :> calculate_file_hash(file_path, fs2)) @@ cache, 1)
             EXCEPT !.net = "ok", !.tags = "saved"]

\* download_music_file, lines 639-660: fetch the URL, write the file, write
\* the tags, cache the hash of the file
transfer_file(music_id, info, file_path, net, growth, fs, cache) ==
  IF net = "http_error"
  THEN [FileEnd(FALSE, <<>>, Failed(<<"request_failed">>), fs, cache, 1)
          EXCEPT !.net = net]
  ELSE IF net = "broken"
  THEN [FileEnd(FALSE, <<>>, Failed(<<"request_failed">>),
                (file_path :> [size |-> info.file_size \div 2,
                               content |-> <<"p", "a", "r", "t">>]) @@ fs,
                cache, 1)
          EXCEPT !.net = net]
  ELSE LET written == [size |-> info.file_size, content |-> AudioBytes(music_id)]
           tagged == write_music_tags(written, growth)
           fs2 == (file_path :> tagged) @@ fs
       IN [FileEnd(FALSE, <<>>, DownloadResult(TRUE, file_path, tagged.size, <<>>),
                   fs2, (file_path :> calculate_file_hash(file_path, fs2)) @@ cache, 1)
             EXCEPT !.net = net, !.tags = TagsOutcome(growth)]

\* What get_music_info can come back with for a track, over every answer
\* of upstream.
InfoCases(music_id, quality) ==
  {get_music_info(music_id, quality, ans) : ans \in InfoAnswers}

\* download_music_file without its check that the file exists (lines 630-637)
download_music_file_always(music_id, quality, fs, cache) ==
  UNION {
    IF mi.raised
    THEN {FileEnd(TRUE, mi.msg, Failed(mi.msg), fs, cache, 0)}
    ELSE {transfer_file(music_id, mi.info, TargetPath(mi.info), net, growth, fs, cache) :
            net \in NetOutcomes, growth \in TagGrowth}
    : mi \in InfoCases(music_id, quality)}

\* SongDownloader.download_music_file: the set of its possible ends
download_music_file(music_id, quality, fs, cache) ==
  UNION {
    IF mi.raised
    THEN {FileEnd(TRUE, mi.msg, Failed(mi.msg), fs, cache, 0)}
    ELSE IF TargetPath(mi.info) \in DOMAIN fs
    THEN {FileEnd(FALSE, <<>>,
                  DownloadResult(TRUE, TargetPath(mi.info),
                                 fs[TargetPath(mi.info)].size, <<>>),
                  fs, cache, 0)}
    ELSE {transfer_file(music_id, mi.info, TargetPath(mi.info), net, growth, fs, cache) :
            net \in NetOutcomes, growth \in TagGrowth}
    : mi \in InfoCases(music_id, quality)}

valid_qualities ==
  {"standard", "exhigh", "lossless", "hires", "sky", "jyeffect", "jymaster"}

\* safe_name of download_song: the illegal characters are dropped
RECURSIVE DropIllegal(_)
DropIllegal(s) ==
  IF s = <<>> THEN <<>>
  ELSE IF Head(s) \in IllegalChars THEN DropIllegal(Tail(s))
  ELSE <<Head(s)>> \o DropIllegal(Tail(s))

\* filename of download_song: f"{safe_name}.{music_info['file_type']}"
OwnPath(music_id, quality) ==
  LET song_data == SongDetail(music_id)
      url_data == SongUrl(music_id, quality)
  IN DropIllegal(StrJoin(song_data.ar, <<"/">>) \o <<" ", "-", " ">> \o song_data.name)
     \o <<".">> \o url_data.type

\* One end of download_song:
\*   already: is_song_already_downloaded_by_id returned True
\*   matched: the file the local check accepted
\*   url_answer: what get_song_url answered at line 332 ("none": not called)
SongEnd(result, fs, cache, n, already, matched) ==
  [result |-> result, files |-> fs, cache |-> cache, transfers |-> n,
   already |-> already, matched |-> matched, url_answer |-> "none"]

\* download_song, lines 308-321, with the file of the local check forgotten
\* and the track fetched again
song_already_downloaded_refetch(music_id, quality, found, fs) ==
  {IF d.raised
   THEN SongEnd(Failed(<<"download_exception">> \o d.msg), d.files, d.cache,
                d.transfers, TRUE, found.matched)
   ELSE SongEnd(d.result, d.files, d.cache, d.transfers, TRUE, found.matched)
   : d \in download_music_file_always(music_id, quality, fs, found.cache)}

\* download_song, lines 308-321: the track is already downloaded
song_already_downloaded(music_id, quality, found, fs) ==
  {IF mi.raised
   THEN SongEnd(Failed(<<"download_exception">> \o mi.msg), fs, found.cache, 0,
                TRUE, found.matched)
   ELSE SongEnd(DownloadResult(TRUE, TargetPath(mi.info),
                               IF TargetPath(mi.info) \in DOMAIN fs
                               THEN fs[TargetPath(mi.info)].size ELSE 0,
                               <<>>),
                fs, found.cache, 0, TRUE, found.matched)
   : mi \in InfoCases(music_id, quality)}

\* download_song, lines 377-414: the result for the file at file_path
song_result(re_format, file_path, fs, cache, n) ==
  IF re_format = "file" /\ file_path \notin DOMAIN fs
  THEN SongEnd(Failed(<<"file_missing">>), fs, cache, n, FALSE, NoPath)
  ELSE SongEnd(DownloadResult(TRUE, file_path, fs[file_path].size, <<>>),
               fs, cache, n, FALSE, NoPath)

\* download_song, lines 356-375: fetch the file unless it is at the own path
song_fetch(music_id, quality, re_format, fs, cache) ==
  IF OwnPath(music_id, quality) \in DOMAIN fs
  THEN {song_result(re_format, OwnPath(music_id, quality), fs, cache, 0)}
  ELSE {IF d.raised
        THEN SongEnd(Failed(<<"download_exception">> \o d.msg), d.files, d.cache,
                     d.transfers, FALSE, NoPath)
        ELSE IF ~d.result.success
        THEN SongEnd(Failed(<<"download_failed">> \o d.result.error_message),
                     d.files, d.cache, d.transfers, FALSE, NoPath)
        ELSE song_result(re_format, d.result.file_path, d.files, d.cache, d.transfers)
        : d \in download_music_file(music_id, quality, fs, cache)}

\* the direct lookups of download_song with the answer of get_song_url
\* never tested for a link
song_lookup_any_url(music_id, quality, re_format, fs, cache) ==
  LET stop(m) == {SongEnd(Failed(m), fs, cache, 0, FALSE, NoPath)}
  IN UNION {
       IF detail = "raise" THEN stop(<<"download_exception", "api_call_failed">>)
       ELSE IF detail = "no_songs" THEN stop(<<"song_not_found">>)
       ELSE UNION {
              IF url = "raise"
              THEN {[e EXCEPT !.url_answer = url] :
                      e \in stop(<<"download_exception", "api_call_failed">>)}
              ELSE {[e EXCEPT !.url_answer = url] :
                      e \in song_fetch(music_id, quality, re_format, fs, cache)}
              : url \in UrlAnswers}
       : detail \in DetailAnswers}

\* download_song, lines 323-337: the two direct lookups, then the fetch
song_lookup(music_id, quality, re_format, fs, cache) ==
  LET stop(m) == {SongEnd(Failed(m), fs, cache, 0, FALSE, NoPath)}
  IN UNION {
       IF detail = "raise" THEN stop(<<"download_exception", "api_call_failed">>)
       ELSE IF detail = "no_songs" THEN stop(<<"song_not_found">>)
       ELSE UNION {
              IF url = "raise"
              THEN {[e EXCEPT !.url_answer = url] :
                      e \in stop(<<"download_exception", "api_call_failed">>)}
              ELSE IF url \in {"no_data", "no_url"}
              THEN {[e EXCEPT !.url_answer = url] : e \in stop(<<"no_download_link">>)}
              ELSE {[e EXCEPT !.url_answer = url] :
                      e \in song_fetch(music_id, quality, re_format, fs, cache)}
              : url \in UrlAnswers}
       : detail \in DetailAnswers}

\* download_song without the test of re_format
download_song_any_format(music_id, quality, re_format, fs, cache) ==
  LET invalid(m) == {SongEnd(Failed(m), fs, cache, 0, FALSE, NoPath)}
      checks == {is_song_already_downloaded_by_id(music_id, quality, ans, fs, cache) :
                   ans \in InfoAnswers}
  IN IF ~(music_id > 0) THEN invalid(<<"invalid_music_id">>)
     ELSE IF quality \notin valid_qualities THEN invalid(<<"invalid_quality">>)
     ELSE UNION {IF found.ret
                 THEN song_already_downloaded(music_id, quality, found, fs)
                 ELSE song_lookup(music_id, quality, re_format, fs, found.cache)
                 : found \in checks}

\* SongDownloader.download_song: the set of its possible ends
download_song(music_id, quality, re_format, fs, cache) ==
  LET invalid(m) == {SongEnd(Failed(m), fs, cache, 0, FALSE, NoPath)}
      checks == {is_song_already_downloaded_by_id(music_id, quality, ans, fs, cache) :
                   ans \in InfoAnswers}
  IN IF ~(music_id > 0) THEN invalid(<<"invalid_music_id">>)
     ELSE IF quality \notin valid_qualities THEN invalid(<<"invalid_quality">>)
     ELSE IF re_format \notin {"file", "json"} THEN invalid(<<"invalid_format">>)
     ELSE UNION {IF found.ret
                 THEN song_already_downloaded(music_id, quality, found, fs)
                 ELSE song_lookup(music_id, quality, re_format, fs, found.cache)
                 : found \in checks}

\* get_song_url answered the lookup of download_song at line 332 with an
\* empty data list or an entry without url
NoUrl(o) == o.url_answer \in {"no_data", "no_url"}

\* a failed result whose error is that of an upstream lookup
LookupFailed(result) ==
  /\ ~result.success
  /\ Head(result.error_message) \in {"download_exception", "song_not_found",
                                     "no_download_link"}

-----------------------------------------------------------------------------
(* The download directory at start, and the states of the parts of the    *)
(* program that a specification leaves alone.                              *)

AllOk == [url |-> "ok", detail |-> "ok", lyric |-> "ok"]

InfoOf(music_id, quality) == get_music_info(music_id, quality, AllOk).info

\* Files found in the directory at start, as <<path, file>>: under each name
\* the local check looks for, audio of the size upstream states for the
\* lossless quality, audio of a size 1% off it, and a file of that size whose
\* bytes are the identity string of the track; under each name download_song
\* builds itself, audio of the stated size.
InitFilesOf(i) ==
  {[size |-> 1000, content |-> AudioBytes(i)],
   [size |-> 1010, content |-> AudioBytes(i)],
   [size |-> 1010, content |-> IdentityString(InfoOf(i, "lossless"))]}

InitEntries ==
  UNION {
    {<<sanitize_filename(BaseFilename(InfoOf(i, "lossless"))) \o possible_extensions[k], f>> :
       k \in 1..Len(possible_extensions), f \in InitFilesOf(i)}
    \cup {<<OwnPath(i, "lossless"), [size |-> 1000, content |-> AudioBytes(i)]>>}
    : i \in TrackIds}

\* the directory that holds the entries E
DirectoryOf(E) ==
  [p \in {e[1] : e \in E} |-> (CHOOSE e \in E : e[1] = p)[2]]

InitDirectories ==
  {DirectoryOf(E) :
     E \in {F \in SUBSET InitEntries :
              /\ Cardinality(F) <= MaxInitFiles
              /\ \A e1, e2 \in F : e1[1] = e2[1] => e1 = e2}}

DsIdle == [pc |-> "idle", songs |-> <<>>, quality |-> "", i |-> 0,
           success_songs |-> <<>>, attempts |-> <<>>]
ChkIdle ==
  [pc |-> "idle", backend |-> "", title |-> <<>>, artists |-> <<>>, album |-> <<>>,
   library |-> <<>>, connection_open |-> FALSE, answer |-> "", raised |-> FALSE,
   exists |-> FALSE, file_type |-> <<>>, file_size |-> 0, item |-> 0]
BatchIdle ==
  [pc |-> "idle", music_ids |-> <<>>, quality |-> "", tasks |-> <<>>, results |-> <<>>]
RtIdle == [pc |-> "idle"]
FnIdle == [op |-> "none"]

-----------------------------------------------------------------------------
(* SpecSong: download_song called from outside, any arguments *)

\* <<music_id, quality, re_format>> of a call: the tracks of the catalogue
\* in the qualities upstream serves, and one call for each argument that
\* download_song rejects
CallInputs ==
  {<<1, "standard", "json">>, <<1, "lossless", "file">>, <<2, "lossless", "file">>,
   <<0, "lossless", "file">>, <<1, "best", "file">>, <<1, "lossless", "xml">>}

CallRecord(music_id, quality, re_format, o) ==
  [id |-> music_id, quality |-> quality, re_format |-> re_format,
   result |-> o.result, transfers |-> o.transfers, already |-> o.already,
   matched |-> o.matched]

NoCall == CallRecord(0, "", "", [result |-> Failed(<<>>), transfers |-> 0,
                                 already |-> FALSE, matched |-> NoPath])

\* what is kept of the call before the last one: its arguments if it
\* succeeded by fetching the file, and nothing otherwise
NoFetch == [id |-> 0, quality |-> "", re_format |-> "", fetched |-> FALSE]

Short(c) ==
  IF c.result.success /\ c.transfers > 0
  THEN [id |-> c.id, quality |-> c.quality, re_format |-> c.re_format, fetched |-> TRUE]
  ELSE NoFetch

InitSong ==
  /\ files \in InitDirectories
  /\ file_hash_cache = EmptyMap
  /\ call = NoCall
  /\ before = NoFetch
  /\ ncalls = 0
  /\ ds = DsIdle
  /\ chk = ChkIdle
  /\ batch = BatchIdle
  /\ rt = RtIdle
  /\ fn = FnIdle

DownloadSongCall ==
  /\ ncalls < MaxCalls
  /\ \E in \in CallInputs :
       \E o \in download_song(in[1], in[2], in[3], files, file_hash_cache) :
         /\ files' = o.files
         /\ file_hash_cache' = o.cache
         /\ call' = CallRecord(in[1], in[2], in[3], o)
         /\ before' = Short(call)
         /\ ncalls' = ncalls + 1
  /\ UNCHANGED <<ds, chk, batch, rt, fn>>

NextSong == DownloadSongCall

SpecSong == InitSong /\ [][NextSong]_vars

-----------------------------------------------------------------------------
(* SpecSongs: download_songs over a list of playlist tracks *)

MaxSongs == 2

\* a track as get_playlist_detail lists it
Track(music_id) ==
  [id |-> music_id,
   name |-> SongDetail(music_id).name,
   artists |-> StrJoin(SongDetail(music_id).ar, <<"/">>),
   album |-> SongDetail(music_id).al]

\* the lists of at most n tracks
TrackLists(n) == UNION {[1..k -> {Track(i) : i \in TrackIds}] : k \in 0..n}

\* download_songs at its first track
songs_start(songs, quality) ==
  [pc |-> "loop", songs |-> songs, quality |-> quality, i |-> 1,
   success_songs |-> <<>>, attempts |-> <<>>]

\* one turn of the loop that gives up the list at the first failed track
songs_step_abort(d, result) ==
  IF result.success
  THEN [d EXCEPT !.i = @ + 1, !.success_songs = Append(@, d.songs[d.i])]
  ELSE [d EXCEPT !.i = Len(d.songs) + 1]

\* download_songs, lines 441-443: one turn of the loop, given the result
\* of download_song for the track at d.i
songs_step(d, result) ==
  [d EXCEPT !.i = @ + 1,
            !.success_songs = IF result.success THEN Append(@, d.songs[d.i]) ELSE @]

InitSongs ==
  /\ files = EmptyMap
  /\ file_hash_cache = EmptyMap
  /\ call = NoCall
  /\ before = NoFetch
  /\ ncalls = 0
  /\ \E songs \in TrackLists(MaxSongs), quality \in {"standard", "lossless", "best"} :
       ds = songs_start(songs, quality)
  /\ chk = ChkIdle
  /\ batch = BatchIdle
  /\ rt = RtIdle
  /\ fn = FnIdle

\* download_songs, lines 438-443: the turn of the loop for the next track.
\* attempts keeps, for each call of download_song, the track and the outcome:
\* success, the number of transfers, whether get_song_url gave no link, and
\* whether the error message says so.
DownloadSongsStep ==
  /\ ds.pc = "loop"
  /\ ds.i <= Len(ds.songs)
  /\ LET song == ds.songs[ds.i]
     IN IF song.id = 0
        THEN /\ ds' = [ds EXCEPT !.i = @ + 1]
             /\ UNCHANGED <<files, file_hash_cache>>
        ELSE \E o \in download_song(song.id, ds.quality, "file", files, file_hash_cache) :
               /\ files' = o.files
               /\ file_hash_cache' = o.cache
               /\ ds' = [songs_step(ds, o.result) EXCEPT
                           !.attempts = Append(@, [index |-> ds.i, song |-> song,
                                                   success |-> o.result.success,
                                                   transfers |-> o.transfers,
                                                   no_url |-> NoUrl(o),
                                                   no_link_message |->
                                                     o.result.error_message
                                                       = <<"no_download_link">>])]
  /\ UNCHANGED <<call, before, ncalls, chk, batch, rt, fn>>

\* download_songs, lines 445-446: the loop is over, success_songs is returned
DownloadSongsReturn ==
  /\ ds.pc = "loop"
  /\ ds.i > Len(ds.songs)
  /\ ds' = [ds EXCEPT !.pc = "returned"]
  /\ UNCHANGED <<files, file_hash_cache, call, before, ncalls, chk, batch, rt, fn>>

NextSongs == DownloadSongsStep \/ DownloadSongsReturn

SpecSongs == InitSongs /\ [][NextSongs]_vars

-----------------------------------------------------------------------------
(* navidrome.py and mysql_check.py: the library existence checkers *)

\* re.split on a set of one-character separators
RECURSIVE StrSplit(_, _)
StrSplit(s, seps) ==
  IF s = <<>> THEN << <<>> >>
  ELSE LET rest == StrSplit(Tail(s), seps)
       IN IF Head(s) \in seps
          THEN << <<>> >> \o rest
          ELSE << <<Head(s)>> \o Head(rest) >> \o Tail(rest)

TypeMp3 == <<"m", "p", "3">>
TypeFlac == <<"f", "l", "a", "c">>
MimeFlac == <<"a", "u", "d", "i", "o", "/", "f", "l", "a", "c">>
MimeMpeg == <<"a", "u", "d", "i", "o", "/", "m", "p", "e", "g">>
MimeWav == <<"a", "u", "d", "i", "o", "/", "w", "a", "v">>
MimeAac == <<"a", "u", "d", "i", "o", "/", "a", "a", "c">>
MimeOgg == <<"a", "u", "d", "i", "o", "/", "o", "g", "g">>
MimeM4a == <<"a", "u", "d", "i", "o", "/", "x", "-", "m", "4", "a">>

\* NavidromeClient._get_empty_result
get_empty_result ==
  [exists |-> FALSE, album |-> <<>>, artists |-> <<>>, file_type |-> <<>>,
   file_size |-> 0, is_mp3 |-> FALSE]

\* NavidromeClient._get_file_type
get_file_type(data) ==
  LET suffix == StrLower(StrLStrip(StrStrip(data.suffix, Whitespace), {"."}))
      mime_type == StrLower(data.mime_type)
  IN IF data.suffix # <<>> /\ suffix # <<>> THEN suffix
     ELSE IF mime_type = MimeFlac THEN TypeFlac
     ELSE IF mime_type = MimeMpeg THEN TypeMp3
     ELSE IF mime_type = MimeWav THEN <<"w", "a", "v">>
     ELSE IF mime_type = MimeAac THEN <<"a", "a", "c">>
     ELSE IF mime_type = MimeOgg THEN <<"o", "g", "g">>
     ELSE IF mime_type = MimeM4a THEN <<"m", "4", "a">>
     ELSE StrUnknown

\* NavidromeClient._get_file_size
get_file_size(item) == item.size

\* the artist tokens of navidrome_song_exists: split on / , ; then stripped,
\* lower-cased, and the empty ones dropped
artist_tokens(artists) ==
  LET parts == StrSplit(artists, {"/", ",", ";"})
      kept == SelectSeq(parts, LAMBDA a : StrStrip(a, Whitespace) # <<>>)
  IN [i \in 1..Len(kept) |-> StrLower(StrStrip(kept[i], Whitespace))]

\* navidrome_song_exists, lines 167-179
artist_match(input_artists, nav_artist_lower) ==
  LET nav_artists_split == artist_tokens(nav_artist_lower)
  IN IF input_artists # <<>>
     THEN \E i \in 1..Len(input_artists) :
            \/ StrContains(nav_artist_lower, input_artists[i])
            \/ \E j \in 1..Len(nav_artists_split) :
                 StrContains(input_artists[i], nav_artists_split[j])
     ELSE StrStrip(nav_artist_lower, Whitespace) # <<>>

\* a title test that compares the titles as they are written
title_match_exact(title, item) == item.title = title

\* navidrome_song_exists, lines 157-164: the title of the candidate is the
\* requested title
title_match(title, item) ==
  StrLower(StrStrip(item.title, Whitespace)) = StrLower(StrStrip(title, Whitespace))

\* a format test that takes no candidate for an mp3
is_mp3_never(file_type) == FALSE

\* navidrome_song_exists, line 186
is_mp3(file_type) == StrLower(file_type) = TypeMp3

\* navidrome_song_exists, lines 156-213: the scan of the candidates from the
\* k-th on; item is the candidate the answer rests on (0: none)
RECURSIVE ScanCandidates(_, _, _, _)
ScanCandidates(k, candidates, title, artists) ==
  IF k > Len(candidates) THEN [result |-> get_empty_result, item |-> 0]
  ELSE LET item == candidates[k]
           nav_artist_full == StrStrip(item.artist, Whitespace)
       IN IF ~title_match(title, item)
          THEN ScanCandidates(k + 1, candidates, title, artists)
          ELSE IF ~artist_match(artist_tokens(artists), StrLower(nav_artist_full))
          THEN ScanCandidates(k + 1, candidates, title, artists)
          ELSE IF is_mp3(get_file_type(item))
          THEN ScanCandidates(k + 1, candidates, title, artists)
          ELSE [result |-> [exists |-> TRUE,
                            album |-> StrStrip(item.album, Whitespace),
                            artists |-> nav_artist_full,
                            file_type |-> get_file_type(item),
                            file_size |-> get_file_size(item),
                            is_mp3 |-> is_mp3(get_file_type(item))],
                item |-> k]

\* How the search request of navidrome_song_exists can end: an answer with
\* status ok, an answer with another status, an HTTP error, a body that is
\* not JSON.
NavidromeAnswers == {"ok", "status_failed", "http_error", "bad_response"}

\* NavidromeClient.navidrome_song_exists
navidrome_song_exists(title, artists, album, answer, library) ==
  IF answer \in {"http_error", "bad_response"}
  THEN [result |-> get_empty_result, item |-> 0]
  ELSE ScanCandidates(1, IF answer = "ok" THEN library ELSE <<>>, title, artists)

\* the full-width comma, one character of the artist string
FullWidthComma == "FullWidthComma"

\* re.sub(r'[FullWidthComma,]/?\s*', ',', s): a comma, a slash that may
\* follow it and the blanks after them become one comma
RECURSIVE SubCommas(_)
SubCommas(s) ==
  IF s = <<>> THEN <<>>
  ELSE IF Head(s) \in {FullWidthComma, ","}
  THEN LET after == IF Tail(s) # <<>> /\ Head(Tail(s)) = "/"
                    THEN Tail(Tail(s)) ELSE Tail(s)
       IN <<",">> \o SubCommas(StrLStrip(after, Whitespace))
  ELSE <<Head(s)>> \o SubCommas(Tail(s))

\* re.sub(r'\s*/\s*', ',', s): a slash and the blanks around it become a comma
RECURSIVE SubSlashes(_)
SubSlashes(s) ==
  IF s = <<>> THEN <<>>
  ELSE LET rest == StrLStrip(s, Whitespace)
       IN IF rest # <<>> /\ Head(rest) = "/"
          THEN <<",">> \o SubSlashes(StrLStrip(Tail(rest), Whitespace))
          ELSE <<Head(s)>> \o SubSlashes(Tail(s))

\* MySQLChecker._split_artists: the tokens, duplicates dropped
split_artists(artists_str) ==
  IF artists_str = <<>> THEN {}
  ELSE LET parts == StrSplit(SubSlashes(SubCommas(artists_str)), {","})
       IN {StrStrip(parts[i], Whitespace) : i \in 1..Len(parts)} \ {<<>>}

\* _split_artists, line 98: the stripped parts of the normalized string that
\* are not empty, in their order
split_parts(artists_str) ==
  LET parts == StrSplit(SubSlashes(SubCommas(artists_str)), {","})
      kept == SelectSeq(parts, LAMBDA a : StrStrip(a, Whitespace) # <<>>)
  IN [i \in 1..Len(kept) |-> StrStrip(kept[i], Whitespace)]

\* a conversion that returns the list as it is
list_as_is(artists) == {artists}

\* _split_artists, line 99: list(set(artists)), the members of the list once
\* each, in any order
list_of_set(artists) ==
  LET S == {artists[i] : i \in 1..Len(artists)}
  IN {u \in [1..Cardinality(S) -> S] : \A i, j \in DOMAIN u : u[i] = u[j] => i = j}

\* MySQLChecker._split_artists: the lists it can return
split_artists_list(artists_str) ==
  IF artists_str = <<>> THEN {<<>>}
  ELSE list_of_set(split_parts(artists_str))

\* an outcome of check_song; row is the row the answer rests on (0: none)
CheckEnd(raised, exc, ret, row) ==
  [raised |-> raised, exc |-> exc, ret |-> ret, row |-> row]

\* How the query of check_song can end
MysqlAnswers == {"ok", "mysql_error"}

\* check_song, lines 173-174
suffix_wanted(suffix) == StrLower(suffix) # TypeMp3

\* MySQLChecker.check_song: the set of its possible ends.  The query has
\* LIMIT 1 and no ORDER BY: fetchone returns any one of the rows that match.
check_song(song_name, artists_str, connection_open, answer, rows) ==
  IF ~connection_open
  THEN {CheckEnd(TRUE, <<"ConnectionError", "connection_not_open">>, FALSE, 0)}
  ELSE IF song_name = <<>> \/ artists_str = <<>>
  THEN {CheckEnd(FALSE, <<>>, FALSE, 0)}
  ELSE IF split_artists(artists_str) = {}
  THEN {CheckEnd(FALSE, <<>>, FALSE, 0)}
  ELSE IF answer = "mysql_error"
  THEN {CheckEnd(FALSE, <<>>, FALSE, 0)}
  ELSE LET matching == {k \in 1..Len(rows) :
                          /\ rows[k].name = song_name
                          /\ rows[k].artist \in split_artists(artists_str)}
       IN IF matching = {}
          THEN {CheckEnd(FALSE, <<>>, FALSE, 0)}
          ELSE {CheckEnd(FALSE, <<>>, suffix_wanted(rows[k].suffix), k) : k \in matching}

-----------------------------------------------------------------------------
(* SpecExists: one call of a library checker, any library *)

MaxCandidates == 2

\* what the Navidrome search can list
NavidromeItems ==
  [title : {<<"X", " ">>, <<"y">>},
   artist : {<<"a", ";", "C">>, <<"D">>},
   album : {<<"L">>},
   suffix : {<<"m", "p", "3">>, <<".", "M", "P", "3">>, <<"f", "l", "a", "c">>, <<>>},
   mime_type : {MimeMpeg},
   size : {1000}]
  \cup
  [title : {<<"X", " ">>, <<"y">>},
   artist : {<<"a", ";", "C">>, <<"D">>},
   album : {<<"L">>},
   suffix : {<<>>},
   mime_type : {MimeFlac},
   size : {2000}]

\* the rows music_track JOIN music_artist can hold
MysqlRows ==
  [name : {<<"x">>, <<"y">>},
   artist : {<<"A">>, <<"D">>},
   suffix : {<<"m", "p", "3">>, <<"M", "P", "3">>, <<"f", "l", "a", "c">>}]

\* the sequences of at most n members of S
SeqsUpTo(S, n) == UNION {[1..k -> S] : k \in 0..n}

CheckTitles == {<<"x">>}
CheckArtists == {<<"A", "/", "B">>, <<>>}

ChkReady(backend, title, artists, library, connection_open) ==
  [pc |-> "ready", backend |-> backend, title |-> title, artists |-> artists,
   album |-> <<"L">>, library |-> library, connection_open |-> connection_open,
   answer |-> "", raised |-> FALSE, exists |-> FALSE, file_type |-> <<>>,
   file_size |-> 0, item |-> 0]

InitExists ==
  /\ files = EmptyMap
  /\ file_hash_cache = EmptyMap
  /\ call = NoCall
  /\ before = NoFetch
  /\ ncalls = 0
  /\ ds = DsIdle
  /\ \E title \in CheckTitles, artists \in CheckArtists :
       \/ \E library \in SeqsUpTo(NavidromeItems, MaxCandidates) :
            chk = ChkReady("navidrome", title, artists, library, FALSE)
       \/ \E library \in SeqsUpTo(MysqlRows, MaxCandidates), connection_open \in BOOLEAN :
            chk = ChkReady("mysql", title, artists, library, connection_open)
  /\ batch = BatchIdle
  /\ rt = RtIdle
  /\ fn = FnIdle

\* a call of navidrome_song_exists
NavidromeSongExists ==
  /\ chk.pc = "ready"
  /\ chk.backend = "navidrome"
  /\ \E answer \in NavidromeAnswers :
       LET r == navidrome_song_exists(chk.title, chk.artists, chk.album, answer, chk.library)
       IN chk' = [chk EXCEPT !.pc = "done", !.answer = answer,
                             !.exists = r.result.exists,
                             !.file_type = r.result.file_type,
                             !.file_size = r.result.file_size,
                             !.item = r.item]
  /\ UNCHANGED <<files, file_hash_cache, call, before, ncalls, ds, batch, rt, fn>>

\* a call of check_song
MysqlCheckSong ==
  /\ chk.pc = "ready"
  /\ chk.backend = "mysql"
  /\ \E answer \in MysqlAnswers :
       \E r \in check_song(chk.title, chk.artists, chk.connection_open, answer, chk.library) :
         chk' = [chk EXCEPT !.pc = "done", !.answer = answer,
                               !.raised = r.raised,
                               !.exists = r.ret,
                               !.file_type = IF r.row = 0 THEN <<>>
                                             ELSE StrLower(chk.library[r.row].suffix),
                               !.item = r.row]
  /\ UNCHANGED <<files, file_hash_cache, call, before, ncalls, ds, batch, rt, fn>>

NextExists == NavidromeSongExists \/ MysqlCheckSong

SpecExists == InitExists /\ [][NextExists]_vars

-----------------------------------------------------------------------------
(* SpecBatch: download_batch_async, one task per submitted id *)

MaxBatchIds == 6

max_concurrent == 5

\* What upstream answers a task of the batch: everything, or an error on
\* the URL lookup.
BatchInfoAnswers == {AllOk, [AllOk EXCEPT !.url = "raise"]}

\* the task of an id before it has run
TaskWaiting ==
  [pc |-> "waiting", raised |-> FALSE, msg |-> <<>>, result |-> Failed(<<>>),
   file_path |-> NoPath]

\* download_music_file_async, lines 685-704: up to the first await.  The
\* task raises DownloadException, returns the file that exists, or goes on
\* to the transfer.
async_start(music_id, quality, ans, fs) ==
  LET mi == get_music_info(music_id, quality, ans)
      file_path == TargetPath(mi.info)
  IN IF mi.raised
     THEN [TaskWaiting EXCEPT !.pc = "done", !.raised = TRUE, !.msg = mi.msg]
     ELSE IF file_path \in DOMAIN fs
     THEN [TaskWaiting EXCEPT !.pc = "done",
             !.result = DownloadResult(TRUE, file_path, fs[file_path].size, <<>>)]
     ELSE [TaskWaiting EXCEPT !.pc = "transfer", !.file_path = file_path]

\* download_music_file_async, lines 706-739: the transfer, the tags, the
\* cache entry and the result
async_finish(music_id, quality, file_path, net, growth, fs, cache) ==
  IF net = "http_error"
  THEN [result |-> Failed(<<"async_request_failed">>), files |-> fs, cache |-> cache]
  ELSE IF net = "broken"
  THEN [result |-> Failed(<<"async_request_failed">>),
        files |-> (file_path :> [size |-> SongUrl(music_id, quality).size \div 2,
                                 content |-> <<"p", "a", "r", "t">>]) @@ fs,
        cache |-> cache]
  ELSE LET written == [size |-> SongUrl(music_id, quality).size,
                       content |-> AudioBytes(music_id)]
           tagged == write_music_tags(written, growth)
           fs2 == (file_path :> tagged) @@ fs
       IN [result |-> DownloadResult(TRUE, file_path, tagged.size, <<>>),
           files |-> fs2,
           cache |-> (file_path :> calculate_file_hash(file_path, fs2)) @@ cache]

\* a gate that lets every task in
admits_all(in_flight) == TRUE

\* asyncio.Semaphore(max_concurrent): a task is let in while fewer than
\* max_concurrent hold the semaphore
admits(in_flight) == in_flight < max_concurrent

\* the tasks that hold the semaphore inside download_music_file_async
InFlight(tasks) == {k \in 1..Len(tasks) : tasks[k].pc = "transfer"}

\* asyncio.gather(*tasks, return_exceptions): the outcomes in the order of
\* the tasks, or the first exception raised to the caller
gather(tasks, return_exceptions) ==
  IF ~return_exceptions /\ \E k \in 1..Len(tasks) : tasks[k].raised
  THEN [raised |-> TRUE, results |-> <<>>]
  ELSE [raised |-> FALSE, results |-> tasks]

\* the conversion that leaves the raised tasks out
process_results_dropping(music_ids, results) ==
  LET kept == SelectSeq(results, LAMBDA r : ~r.raised)
  IN [i \in 1..Len(kept) |-> kept[i].result]

\* download_batch_async, lines 795-803: an exception becomes a failed result
process_results(music_ids, results) ==
  [i \in 1..Len(results) |->
     IF results[i].raised
     THEN Failed(<<"task_exception">> \o IntToStr(music_ids[i]) \o results[i].msg)
     ELSE results[i].result]

\* the ids submitted: n ids, the tracks of the catalogue in turn
BatchIds(n) == [k \in 1..n |-> ((k - 1) % Cardinality(TrackIds)) + 1]

InitBatch ==
  /\ files = EmptyMap
  /\ file_hash_cache = EmptyMap
  /\ call = NoCall
  /\ before = NoFetch
  /\ ncalls = 0
  /\ ds = DsIdle
  /\ chk = ChkIdle
  /\ \E n \in 0..MaxBatchIds :
       batch = [pc |-> "running", music_ids |-> BatchIds(n), quality |-> "lossless",
                tasks |-> [k \in 1..n |-> TaskWaiting], results |-> <<>>]
  /\ rt = RtIdle
  /\ fn = FnIdle

\* download_with_semaphore: the first waiting task takes the semaphore and
\* runs download_music_file_async up to its first await
BatchStartTask ==
  /\ batch.pc = "running"
  /\ \E k \in 1..Len(batch.tasks) :
       /\ batch.tasks[k].pc = "waiting"
       /\ \A j \in 1..(k - 1) : batch.tasks[j].pc # "waiting"
       /\ admits(Cardinality(InFlight(batch.tasks)))
       /\ \E ans \in BatchInfoAnswers :
            batch' = [batch EXCEPT !.tasks[k] =
                        async_start(batch.music_ids[k], batch.quality, ans, files)]
  /\ UNCHANGED <<files, file_hash_cache, call, before, ncalls, ds, chk, rt, fn>>

\* a task in flight ends its transfer and releases the semaphore
BatchFinishTask ==
  /\ batch.pc = "running"
  /\ \E k \in InFlight(batch.tasks), net \in NetOutcomes, growth \in TagGrowth :
       LET e == async_finish(batch.music_ids[k], batch.quality,
                             batch.tasks[k].file_path, net, growth,
                             files, file_hash_cache)
       IN /\ files' = e.files
          /\ file_hash_cache' = e.cache
          /\ batch' = [batch EXCEPT !.tasks[k].pc = "done",
                                    !.tasks[k].result = e.result]
  /\ UNCHANGED <<call, before, ncalls, ds, chk, rt, fn>>

\* download_batch_async, lines 792-805: gather is over, the results are
\* converted and returned
BatchReturn ==
  /\ batch.pc = "running"
  /\ \A k \in 1..Len(batch.tasks) : batch.tasks[k].pc = "done"
  /\ LET g == gather(batch.tasks, TRUE)
     IN batch' = IF g.raised
                 THEN [batch EXCEPT !.pc = "raised"]
                 ELSE [batch EXCEPT !.pc = "returned",
                         !.results = process_results(batch.music_ids, g.results)]
  /\ UNCHANGED <<files, file_hash_cache, call, before, ncalls, ds, chk, rt, fn>>

NextBatch == BatchStartTask \/ BatchFinishTask \/ BatchReturn

SpecBatch == InitBatch /\ [][NextBatch]_vars

-----------------------------------------------------------------------------
(* bark.py: the notifier *)

\* BarkNotifier.send_notification: the requests it posts.  Nothing is
\* posted when the notifier is not enabled; a failed post is logged and
\* leaves no other trace.
send_notification(enabled, title, content) ==
  IF ~enabled THEN <<>> ELSE <<[title |-> title, content |-> content]>>

\* the parameters of BarkNotifier.send_download_report after self
send_download_report_params ==
  <<"total_songs", "library_exists", "local_exists", "should_download">>

\* BarkNotifier.send_download_report called with the positional arguments
\* args: the call raises TypeError unless every parameter gets its argument
send_download_report(enabled, args) ==
  IF Len(args) # Len(send_download_report_params)
  THEN [raised |-> TRUE, exc |-> <<"TypeError", "missing_positional_arguments">>,
        posted |-> <<>>]
  ELSE [raised |-> FALSE, exc |-> <<>>,
        posted |-> send_notification(enabled, "download_statistics", args)]

-----------------------------------------------------------------------------
(* Spec: one run of run_task *)

\* what the library of a run holds when a track is looked up
RunNavidromeLibraries == {<<>>} \cup {<<e>> : e \in NavidromeItems}
RunMysqlLibraries == {<<>>} \cup {<<e>> : e \in MysqlRows}

\* run_task, line 155: the tracks of the download list not in success_songs
failed_songs_of(songs_to_download, success_songs) ==
  SelectSeq(songs_to_download,
            LAMBDA s : \A k \in 1..Len(success_songs) : success_songs[k] # s)

\* run_task's handler without its notification
run_except_silent(r, exc, stage) ==
  [r EXCEPT !.pc = "end", !.exc = exc, !.exc_stage = stage]

\* run_task, lines 162-164: the handler of every exception of the run.
\* stage names the call that raised.
run_except(r, exc, stage) ==
  [r EXCEPT !.pc = "end", !.exc = exc, !.exc_stage = stage,
            !.notifications = @ \o send_notification(r.enabled, "sync_failed",
                                                     <<"task_error">> \o exc)]

\* the filter stage with the MySQL branch tested first
filter_entry_mysql_first(r) ==
  IF r.use_mysql THEN "open_mysql"
  ELSE IF r.use_navidrome THEN "filter_navidrome"
  ELSE "filtered"

\* run_task, lines 120-145: where the filter stage starts
filter_entry(r) ==
  IF r.use_navidrome THEN "filter_navidrome"
  ELSE IF r.use_mysql THEN "open_mysql"
  ELSE "filtered"

\* The download directory as a run of run_task can find it: empty, or
\* holding the first track under the name the local check looks for, with
\* the size upstream states for it.
RunInitDirectories ==
  {EmptyMap,
   DirectoryOf({<<sanitize_filename(BaseFilename(InfoOf(1, "lossless")))
                    \o possible_extensions[1],
                  [size |-> 1000, content |-> AudioBytes(1)]>>})}

Init ==
  /\ files \in RunInitDirectories
  /\ file_hash_cache = EmptyMap
  /\ call = NoCall
  /\ before = NoFetch
  /\ ncalls = 0
  /\ ds = DsIdle
  /\ chk = ChkIdle
  /\ batch = BatchIdle
  /\ fn = FnIdle
  /\ \E use_navidrome \in BOOLEAN, use_mysql \in BOOLEAN, enabled \in BOOLEAN :
       rt = [pc |-> "start", use_navidrome |-> use_navidrome, use_mysql |-> use_mysql,
             enabled |-> enabled, quality_level |-> "lossless",
             today_playlist |-> "unset", songs |-> <<>>, i |-> 1, songs_to_download |-> <<>>,
             connection |-> "none", consulted |-> {}, backend_errors |-> {},
             success_songs |-> <<>>, failed_songs |-> <<>>,
             notifications |-> <<>>, exc |-> <<>>, exc_stage |-> ""]

\* run_task, lines 88-104: find_todays_playlist
RunFindPlaylist ==
  /\ rt.pc = "start"
  /\ \E answer \in {"found", "none", "raise"} :
       rt' = IF answer = "raise"
             THEN run_except(rt, <<"APIException", "playlist_request_failed">>,
                             "find_todays_playlist")
             ELSE IF answer = "none"
             THEN [rt EXCEPT !.pc = "end", !.today_playlist = "none"]
             ELSE [rt EXCEPT !.pc = "detail", !.today_playlist = "found"]
  /\ UNCHANGED <<files, file_hash_cache, call, before, ncalls, ds, chk, batch, fn>>

\* run_task, lines 106-115: get_playlist_detail
RunGetPlaylistDetail ==
  /\ rt.pc = "detail"
  /\ \/ rt' = run_except(rt, <<"APIException", "detail_request_failed">>,
                         "get_playlist_detail")
     \/ \E songs \in TrackLists(MaxSongs) :
          rt' = IF songs = <<>> THEN [rt EXCEPT !.pc = "end"]
                ELSE [rt EXCEPT !.pc = filter_entry(rt), !.songs = songs]
  /\ UNCHANGED <<files, file_hash_cache, call, before, ncalls, ds, chk, batch, fn>>

\* run_task, lines 123-130: the Navidrome check of the track at rt.i
RunFilterNavidrome ==
  /\ rt.pc = "filter_navidrome"
  /\ \E answer \in NavidromeAnswers, library \in RunNavidromeLibraries :
       LET song == rt.songs[rt.i]
           e == navidrome_song_exists(song.name, song.artists, song.album,
                                      answer, library)
       IN rt' = [rt EXCEPT
                   !.songs_to_download =
                      IF ~e.result.exists THEN Append(@, song) ELSE @,
                   !.consulted = @ \cup {"navidrome"},
                   !.backend_errors =
                      IF answer \in {"http_error", "bad_response", "status_failed"}
                      THEN @ \cup {rt.i} ELSE @,
                   !.i = @ + 1,
                   !.pc = IF rt.i = Len(rt.songs) THEN "filtered" ELSE @]
  /\ UNCHANGED <<files, file_hash_cache, call, before, ncalls, ds, chk, batch, fn>>

\* run_task, lines 133-134: MySQLChecker(config) and open_connection()
RunOpenMysql ==
  /\ rt.pc = "open_mysql"
  /\ \E answer \in {"ok", "connect_failed", "config_incomplete"} :
       LET r == [rt EXCEPT !.consulted = @ \cup {"mysql"}]
       IN rt' = IF answer = "connect_failed"
                THEN [run_except(r, <<"ConnectionError", "mysql_connect_failed">>,
                                 "open_connection")
                        EXCEPT !.backend_errors = 1..Len(rt.songs)]
                ELSE IF answer = "config_incomplete"
                THEN run_except(r, <<"ValueError", "mysql_config_incomplete">>,
                                "MySQLChecker")
                ELSE [r EXCEPT !.pc = "filter_mysql", !.connection = "open"]
  /\ UNCHANGED <<files, file_hash_cache, call, before, ncalls, ds, chk, batch, fn>>

\* run_task, lines 135-143: the MySQL check of the track at rt.i, and
\* close_connection after the last track
RunFilterMysql ==
  /\ rt.pc = "filter_mysql"
  /\ \E answer \in MysqlAnswers, rows \in RunMysqlLibraries :
       LET song == rt.songs[rt.i]
       IN \E e \in check_song(song.name, song.artists, rt.connection = "open",
                              answer, rows) :
            rt' = IF e.raised
                  THEN [run_except(rt, e.exc, "check_song")
                          EXCEPT !.backend_errors = @ \cup {rt.i}]
                  ELSE [rt EXCEPT
                          !.songs_to_download = IF ~e.ret THEN Append(@, song) ELSE @,
                          !.backend_errors =
                             IF answer = "mysql_error" THEN @ \cup {rt.i} ELSE @,
                          !.i = @ + 1,
                          !.pc = IF rt.i = Len(rt.songs) THEN "filtered" ELSE @,
                          !.connection = IF rt.i = Len(rt.songs) THEN "closed" ELSE @]
  /\ UNCHANGED <<files, file_hash_cache, call, before, ncalls, ds, chk, batch, fn>>

\* the end of the filter stage without its test of the download list
RunStartDownloadAlways ==
  /\ rt.pc = "filtered"
  /\ rt' = [rt EXCEPT !.pc = "download"]
  /\ ds' = songs_start(rt.songs_to_download, rt.quality_level)
  /\ UNCHANGED <<files, file_hash_cache, call, before, ncalls, chk, batch, fn>>

\* run_task, lines 148-154: nothing to download, or download_songs is called
RunStartDownload ==
  /\ rt.pc = "filtered"
  /\ IF rt.songs_to_download = <<>>
     THEN /\ rt' = [rt EXCEPT !.pc = "end",
                      !.notifications = @ \o send_notification(rt.enabled, "sync",
                                                               <<"nothing_to_download">>)]
          /\ UNCHANGED ds
     ELSE /\ rt' = [rt EXCEPT !.pc = "download"]
          /\ ds' = songs_start(rt.songs_to_download, rt.quality_level)
  /\ UNCHANGED <<files, file_hash_cache, call, before, ncalls, chk, batch, fn>>

\* run_task, lines 154-160: download_songs has returned; the failed list is
\* built and send_download_report is called with the two lists
RunReport ==
  /\ rt.pc = "download"
  /\ ds.pc = "returned"
  /\ LET success_songs == ds.success_songs
         failed_songs == failed_songs_of(rt.songs_to_download, success_songs)
         report == send_download_report(rt.enabled, <<success_songs, failed_songs>>)
         r == [rt EXCEPT !.success_songs = success_songs,
                         !.failed_songs = failed_songs]
     IN rt' = IF report.raised
              THEN run_except(r, report.exc, "send_download_report")
              ELSE [r EXCEPT !.pc = "end", !.notifications = @ \o report.posted]
  /\ UNCHANGED <<files, file_hash_cache, call, before, ncalls, ds, chk, batch, fn>>

Next ==
  \/ RunFindPlaylist
  \/ RunGetPlaylistDetail
  \/ RunFilterNavidrome
  \/ RunOpenMysql
  \/ RunFilterMysql
  \/ RunStartDownload
  \/ DownloadSongsStep
  \/ DownloadSongsReturn
  \/ RunReport

Spec == Init /\ [][Next]_vars

-----------------------------------------------------------------------------
(* Claims about download_song *)

C2_ReturnsMatchedFile ==
  (call.already /\ call.result.success) =>
    /\ call.result.file_path = call.matched
    /\ call.result.file_path \in DOMAIN files
    /\ call.result.file_size = files[call.matched].size

\* the call repeats the call before it, which succeeded by fetching the file
RepeatsFetch ==
  /\ before.fetched
  /\ call.id = before.id /\ call.quality = before.quality
  /\ call.re_format = before.re_format

-----------------------------------------------------------------------------
(* Claims about download_songs *)

\* the tracks of the attempts that succeeded, in the order of the attempts
RECURSIVE SucceededOf(_)
SucceededOf(attempts) ==
  IF attempts = <<>> THEN <<>>
  ELSE (IF Head(attempts).success THEN <<Head(attempts).song>> ELSE <<>>)
       \o SucceededOf(Tail(attempts))

\* C7: download_songs calls download_song once for every track of its input,
\* in input order, whatever the outcome of the tracks before; what it
\* returns is the sub-sequence of the input tracks whose call succeeded.
C7_EveryTrackOnceInOrder ==
  /\ \A k \in 1..Len(ds.attempts) :
       ds.attempts[k].index = k /\ ds.attempts[k].song = ds.songs[k]
  /\ ds.pc = "loop" => Len(ds.attempts) = ds.i - 1
  /\ ds.pc = "returned" =>
       /\ Len(ds.attempts) = Len(ds.songs)
       /\ ds.success_songs = SucceededOf(ds.attempts)

\* a list of two tracks was worked through: the first failed, the second
\* was downloaded
C7_Witness ==
  /\ ds.pc = "returned"
  /\ Len(ds.songs) = 2
  /\ ~ds.attempts[1].success
  /\ ds.attempts[2].success
  /\ ds.success_songs = <<ds.songs[2]>>

-----------------------------------------------------------------------------
(* Claims about the library checkers *)

\* the format of a library entry is the undesired one
EntryIsMp3(backend, e) ==
  IF backend = "navidrome" THEN get_file_type(e) = TypeMp3
  ELSE StrLower(e.suffix) = TypeMp3

\* the entry matches the request on title and artist, as the backend matches
EntryMatches(backend, e, title, artists) ==
  IF backend = "navidrome"
  THEN /\ title_match(title, e)
       /\ artist_match(artist_tokens(artists), StrLower(StrStrip(e.artist, Whitespace)))
  ELSE /\ e.name = title
       /\ e.artist \in split_artists(artists)

\* C4: neither checker reports a track as existing on the strength of an
\* mp3 entry: exists=true rests on an entry of the library that matches the
\* request and whose format is not mp3, and the format reported is not mp3.
C4_NeverExistsOnMp3 ==
  (chk.pc = "done" /\ chk.exists) =>
    /\ chk.item \in 1..Len(chk.library)
    /\ EntryMatches(chk.backend, chk.library[chk.item], chk.title, chk.artists)
    /\ ~EntryIsMp3(chk.backend, chk.library[chk.item])
    /\ chk.file_type # TypeMp3

\* an mp3 match came first in the library, and the checker reported the
\* track on the strength of the entry after it
C4_Witness ==
  /\ chk.pc = "done" /\ chk.exists
  /\ chk.item = 2
  /\ EntryMatches(chk.backend, chk.library[1], chk.title, chk.artists)
  /\ EntryIsMp3(chk.backend, chk.library[1])

\* C5: when the backend answered and the library holds an entry that
\* matches title and artist in a format other than mp3, the checker reports
\* the track as existing, mp3 matches notwithstanding.
C5_NonMp3MatchReported ==
  ( /\ chk.pc = "done"
    /\ chk.answer = "ok" /\ ~chk.raised
    /\ \E k \in 1..Len(chk.library) :
         /\ EntryMatches(chk.backend, chk.library[k], chk.title, chk.artists)
         /\ ~EntryIsMp3(chk.backend, chk.library[k]) )
  => chk.exists

\* C5 for the Navidrome checker alone
C5_NavidromeNonMp3MatchReported ==
  chk.backend = "navidrome" => C5_NonMp3MatchReported

-----------------------------------------------------------------------------
(* Claims about download_batch_async *)

\* C8: at most 5 download_music_file_async transfers are in flight at any
\* time, however many ids were submitted.
C8_AtMostFiveInFlight ==
  Cardinality(InFlight(batch.tasks)) <= 5

\* five tasks are in flight and a sixth waits for the semaphore
C8_Witness ==
  /\ Cardinality(InFlight(batch.tasks)) = 5
  /\ \E k \in 1..Len(batch.tasks) : batch.tasks[k].pc = "waiting"

\* C9: download_batch_async returns one result per submitted id, in the
\* order of the ids: the result the id's own task returned, or, for a task
\* that raised, a failed result that names the id and carries the text of
\* the exception.  Every task has run to its end, and no exception reaches
\* the caller.
C9_OneResultPerId ==
  /\ batch.pc # "raised"
  /\ batch.pc = "returned" =>
       /\ Len(batch.results) = Len(batch.music_ids)
       /\ \A k \in 1..Len(batch.music_ids) :
            /\ batch.tasks[k].pc = "done"
            /\ batch.tasks[k].raised =>
                 /\ ~batch.results[k].success
                 /\ batch.results[k].error_message =
                      <<"task_exception">> \o IntToStr(batch.music_ids[k])
                        \o batch.tasks[k].msg
            /\ ~batch.tasks[k].raised =>
                 batch.results[k] = batch.tasks[k].result

\* a batch returned in which one task raised, one task's transfer failed
\* and a task after them succeeded
C9_Witness ==
  /\ batch.pc = "returned"
  /\ \E i, j, k \in 1..Len(batch.music_ids) :
       /\ i < k /\ j < k
       /\ batch.tasks[i].raised
       /\ ~batch.tasks[j].raised /\ ~batch.results[j].success
       /\ batch.results[k].success

-----------------------------------------------------------------------------
(* Claims about run_task *)

\* C6: an error of the existence backend of the run counts as "track not
\* found": no exception of open_connection or of a check reaches the
\* handler of run_task, and once the filter is over every track whose
\* check met a backend error is in the list handed to download_songs.
C6_BackendErrorIsNotFound ==
  /\ rt.exc_stage \notin {"open_connection", "check_song"}
  /\ rt.pc \in {"filtered", "download", "end"} =>
       \A k \in rt.backend_errors :
         \E j \in 1..Len(rt.songs_to_download) : rt.songs_to_download[j] = rt.songs[k]

\* C6 for the Navidrome backend alone
C6_NavidromeErrorIsNotFound ==
  rt.use_navidrome => C6_BackendErrorIsNotFound

\* C10: a run with a notifier that is enabled, whose filter left tracks to
\* download and whose download_songs call returned, ends with the download
\* report as its last notification, carrying the numbers of processed,
\* successful and failed tracks, and with no failure notification.
C10_RunEndsWithReport ==
  (rt.pc = "end" /\ rt.enabled /\ ds.pc = "returned") =>
    /\ rt.notifications # <<>>
    /\ rt.notifications[Len(rt.notifications)].title
         \in {"download_statistics", "download_result"}
    /\ \A k \in 1..Len(rt.notifications) : rt.notifications[k].title # "sync_failed"

\* the notifications of the run that report a failure
FailureNotifications ==
  {k \in 1..Len(rt.notifications) : rt.notifications[k].title = "sync_failed"}

\* C11: when a stage of run_task raises, the run is over (nothing is raised
\* to the caller and no stage runs again) and, the notifier being enabled,
\* exactly one failure notification was sent, the last notification of the
\* run, and it carries the text of the exception; a run in which nothing
\* raised sends no failure notification.
C11_FailureNotifiedOnce ==
  /\ rt.exc # <<>> =>
       /\ rt.pc = "end"
       /\ rt.enabled =>
            /\ FailureNotifications = {Len(rt.notifications)}
            /\ rt.notifications[Len(rt.notifications)].content
                 = <<"task_error">> \o rt.exc
  /\ rt.exc = <<>> => FailureNotifications = {}

\* the track list fetch raised and the failure was notified
C11_Witness ==
  /\ rt.exc_stage = "get_playlist_detail"
  /\ rt.enabled
  /\ Len(rt.notifications) = 1
  /\ rt.notifications[1].title = "sync_failed"
  /\ rt.pc = "end"


\* the one notification of a run that found nothing to download
NothingToDownload == [title |-> "sync", content |-> <<"nothing_to_download">>]

\* C12: a run that ends without an exception and without a playlist, or with
\* a playlist that has no tracks, has sent no notification and never called
\* download_songs; a run whose filter left no track has never called
\* download_songs and has sent the one 'nothing to download' notification
\* (which an enabled notifier posts); and whenever download_songs was called,
\* it was called with the filtered list, which was not empty.
C12_EarlyEndsSkipDownload ==
  /\ (rt.pc = "end" /\ rt.exc = <<>> /\ rt.today_playlist = "none") =>
       /\ rt.notifications = <<>>
       /\ ds = DsIdle
  /\ (rt.pc = "end" /\ rt.exc = <<>> /\ rt.today_playlist = "found"
        /\ rt.songs = <<>>) =>
       /\ rt.notifications = <<>>
       /\ ds = DsIdle
  /\ (rt.pc = "end" /\ rt.exc = <<>> /\ rt.songs # <<>>
        /\ rt.songs_to_download = <<>>) =>
       /\ ds = DsIdle
       /\ rt.notifications = IF rt.enabled THEN <<NothingToDownload>> ELSE <<>>
  /\ ds # DsIdle =>
       /\ rt.songs_to_download # <<>>
       /\ ds.songs = rt.songs_to_download

\* a run over a playlist with tracks that the library all holds has ended
\* with the notification
C12_Witness ==
  /\ rt.pc = "end"
  /\ rt.exc = <<>>
  /\ rt.songs # <<>>
  /\ rt.songs_to_download = <<>>
  /\ rt.use_navidrome
  /\ rt.notifications = <<NothingToDownload>>


\* download_songs was called and has not yet taken its first track: the
\* directory is the one the filter stage ran over
HandedOver == rt.pc = "download" /\ ds.pc = "loop" /\ ds.i = 1

\* C13: no track of the list handed to download_songs is already present in
\* the download directory, as the local check (with its upstream lookup
\* answered) decides it
C13_LocalTracksNotHandedOver ==
  HandedOver =>
    \A k \in 1..Len(ds.songs) :
      ~is_song_already_downloaded(ds.songs[k], ds.quality, AllOk,
                                  files, file_hash_cache)


\* the backend the configuration selects: Navidrome before MySQL
SelectedBackends ==
  IF rt.use_navidrome THEN {"navidrome"}
  ELSE IF rt.use_mysql THEN {"mysql"}
  ELSE {}

NotLocal ==
  {k \in 1..Len(rt.songs) :
     ~is_song_already_downloaded(rt.songs[k], rt.quality_level, AllOk,
                                 files, file_hash_cache)}

\* C15: with neither backend enabled, a run that got its playlist and went
\* past the filter stage without ever calling download_songs (the 'nothing
\* to download' end) had no playlist track that the download directory
\* does not hold
C15_NoBackendDownloadsMissing ==
  (/\ ~rt.use_navidrome
   /\ ~rt.use_mysql
   /\ rt.pc \in {"download", "end"}
   /\ rt.exc_stage \notin {"find_todays_playlist", "get_playlist_detail"}
   /\ ds = DsIdle) =>
     NotLocal = {}


\* the arguments of the call c are among those download_song rejects
InvalidArguments(c) ==
  \/ ~(c.id > 0)
  \/ c.quality \notin valid_qualities
  \/ c.re_format \notin {"file", "json"}

\* the results of the three validation returns of download_song, which
\* precede every upstream call
ValidationFailures ==
  {Failed(<<"invalid_music_id">>), Failed(<<"invalid_quality">>),
   Failed(<<"invalid_format">>)}

\* C16: a call of download_song with a non-positive id, an unknown quality
\* or an unknown re_format returns the failure of the argument validation,
\* having transferred nothing, not run the local check, and left the
\* download directory and the hash cache as they were
C16_InvalidArgumentsRejected ==
  [][(ncalls' = ncalls + 1 /\ InvalidArguments(call')) =>
       /\ call'.result \in ValidationFailures
       /\ ~call'.result.success
       /\ call'.transfers = 0
       /\ ~call'.already
       /\ files' = files
       /\ file_hash_cache' = file_hash_cache]_vars

\* a call with an unknown re_format was rejected over a directory that
\* holds a file
C16_Witness ==
  /\ ncalls > 0
  /\ call.re_format = "xml"
  /\ call.id > 0
  /\ call.quality \in valid_qualities
  /\ call.result = Failed(<<"invalid_format">>)
  /\ files # EmptyMap


-----------------------------------------------------------------------------
(* SpecSanitize: _sanitize_filename applied to a name, then to its own     *)
(* results                                                                 *)

MaxTailLen == 3
MaxApplications == 2

\* n times the character "a"
Pad(n) == [i \in 1..n |-> "a"]

\* The names given to _sanitize_filename: an optional leading dot, a run of
\* letters that is empty or ends just below the length limit, and a tail of
\* letters, spaces, dots and illegal characters that crosses the limit.
SanitizeInputs ==
  {head \o Pad(n) \o tail :
     head \in {<<>>, <<".">>},
     n \in {0, MaxFilenameLen - 2, MaxFilenameLen - 1},
     tail \in SeqsUpTo({"a", " ", ".", "/"}, MaxTailLen)}

InitSanitize ==
  /\ files = EmptyMap
  /\ file_hash_cache = EmptyMap
  /\ call = NoCall
  /\ before = NoFetch
  /\ ncalls = 0
  /\ ds = DsIdle
  /\ chk = ChkIdle
  /\ batch = BatchIdle
  /\ rt = RtIdle
  /\ \E filename \in SanitizeInputs :
       fn = [op |-> "sanitize_filename", filename |-> filename,
             prev |-> filename, ret |-> filename, applied |-> 0]

\* _sanitize_filename is called on the name its last call returned (on the
\* given name the first time)
SanitizeFilename ==
  /\ fn.applied < MaxApplications
  /\ fn' = [fn EXCEPT !.prev = fn.ret,
                      !.ret = sanitize_filename(fn.ret),
                      !.applied = @ + 1]
  /\ UNCHANGED <<files, file_hash_cache, call, before, ncalls, ds, chk, batch, rt>>

NextSanitize == SanitizeFilename

SpecSanitize == InitSanitize /\ [][NextSanitize]_vars

\* C17: _sanitize_filename applied to a name it returned returns that name
C17_SanitizeIdempotent ==
  fn.applied >= 2 => fn.ret = fn.prev


-----------------------------------------------------------------------------
(* SpecVerify: _verify_file_integrity called on a file of the directory    *)

MaxSizeDiff == 11

\* the file the verifier is called on
VerifyPath == sanitize_filename(BaseFilename(InfoOf(1, "lossless"))) \o ExtFlac

\* The track records given to the verifier: the first track with the size
\* upstream states for it, and with no size stated
VerifyInfos ==
  {InfoOf(1, "lossless"), [InfoOf(1, "lossless") EXCEPT !.file_size = 0]}

\* The file: of a size up to MaxSizeDiff bytes off the size upstream states,
\* holding audio, or holding the identity string of the track
VerifyFiles ==
  {[size |-> InfoOf(1, "lossless").file_size + d, content |-> c] :
     d \in (0 - MaxSizeDiff)..MaxSizeDiff,
     c \in {AudioBytes(1), IdentityString(InfoOf(1, "lossless"))}}

\* The hash cache: empty, or holding for the file a hash of other bytes, or
\* the hash the track record gives
VerifyCaches ==
  {EmptyMap,
   VerifyPath :> Md5(AudioBytes(2)),
   VerifyPath :> calculate_expected_hash(InfoOf(1, "lossless"))}

InitVerify ==
  /\ \E f \in VerifyFiles : files = (VerifyPath :> f)
  /\ file_hash_cache \in VerifyCaches
  /\ call = NoCall
  /\ before = NoFetch
  /\ ncalls = 0
  /\ ds = DsIdle
  /\ chk = ChkIdle
  /\ batch = BatchIdle
  /\ rt = RtIdle
  /\ \E music_info \in VerifyInfos :
       fn = [op |-> "verify_file_integrity", file_path |-> VerifyPath,
             music_info |-> music_info, called |-> FALSE, ret |-> FALSE,
             hashed |-> FALSE, cache_before |-> EmptyMap]

\* _verify_file_integrity(file_path, music_info) is called
VerifyFileIntegrity ==
  /\ ~fn.called
  /\ LET v == verify_file_integrity(fn.file_path, fn.music_info, files, file_hash_cache)
     IN /\ file_hash_cache' = v.cache
        /\ fn' = [fn EXCEPT !.called = TRUE, !.ret = v.ret, !.hashed = v.hashed,
                            !.cache_before = file_hash_cache]
  /\ UNCHANGED <<files, call, before, ncalls, ds, chk, batch, rt>>

NextVerify == VerifyFileIntegrity

SpecVerify == InitVerify /\ [][NextVerify]_vars

\* the size of the file is less than 1% off the stated size, which is positive
SizeWithinOnePercent ==
  LET file_size == files[fn.file_path].size
      expected_size == fn.music_info.file_size
  IN /\ expected_size > 0
     /\ (IF file_size >= expected_size THEN file_size - expected_size
         ELSE expected_size - file_size) * 100 < expected_size

NoLinkAttempts == {k \in 1..Len(ds.attempts) : ds.attempts[k].no_url}

\* C19: a call of download_song whose URL lookup answers with an empty list
\* or an entry without url fails with the 'no download link' message and
\* transfers nothing, its track is not among the successes, and
\* download_songs goes on: the loop is past that track, and once it has
\* returned a call was made for the track after it
C19_NoLinkFailsAndLoopGoesOn ==
  \A k \in NoLinkAttempts :
    LET a == ds.attempts[k]
    IN /\ ~a.success
       /\ a.no_link_message
       /\ a.transfers = 0
       /\ ds.i > a.index
       /\ (ds.pc = "returned" /\ a.index < Len(ds.songs)) =>
            /\ k < Len(ds.attempts)
            /\ ds.attempts[k + 1].index = a.index + 1

\* the first of two tracks had no link and the second was downloaded
C19_Witness ==
  /\ ds.pc = "returned"
  /\ Len(ds.attempts) = 2
  /\ ds.attempts[1].no_url
  /\ ds.attempts[2].success
  /\ ds.attempts[2].transfers = 1
  /\ ds.success_songs = <<ds.songs[2]>>


-----------------------------------------------------------------------------
(* SpecArtist: the artist test of navidrome_song_exists on its own         *)

MaxArtistLen == 3

\* The artist strings, requested or of a candidate: letters in both cases,
\* the separator "/", the full-width comma and the space
ArtistStrings == SeqsUpTo({"a", "A", "/", FullWidthComma, " "}, MaxArtistLen)

InitArtist ==
  /\ files = EmptyMap
  /\ file_hash_cache = EmptyMap
  /\ call = NoCall
  /\ before = NoFetch
  /\ ncalls = 0
  /\ ds = DsIdle
  /\ chk = ChkIdle
  /\ batch = BatchIdle
  /\ rt = RtIdle
  /\ \E artists \in ArtistStrings, artist \in ArtistStrings :
       fn = [op |-> "artist_match", artists |-> artists, artist |-> artist,
             called |-> FALSE, ret |-> FALSE]

\* navidrome_song_exists, lines 154 and 159-179, for the requested string
\* artists and a candidate (of the requested title) whose artist is artist
ArtistMatch ==
  /\ ~fn.called
  /\ LET nav_artist_full == StrStrip(fn.artist, Whitespace)
     IN fn' = [fn EXCEPT !.called = TRUE,
                         !.ret = artist_match(artist_tokens(fn.artists),
                                              StrLower(nav_artist_full))]
  /\ UNCHANGED <<files, file_hash_cache, call, before, ncalls, ds, chk, batch, rt>>

NextArtist == ArtistMatch

SpecArtist == InitArtist /\ [][NextArtist]_vars

\* the tokens of an artist string split on / , ; and the full-width comma,
\* stripped and lower-cased, the empty ones dropped
TokensOnAllSeparators(s) ==
  LET parts == StrSplit(s, {"/", ",", ";", FullWidthComma})
      kept == SelectSeq(parts, LAMBDA a : StrStrip(a, Whitespace) # <<>>)
  IN [i \in 1..Len(kept) |-> StrLower(StrStrip(kept[i], Whitespace))]

\* some requested token is part of some candidate token, or holds one
SomeTokensMatch(requested, candidate) ==
  \E i \in 1..Len(requested), j \in 1..Len(candidate) :
    \/ StrContains(candidate[j], requested[i])
    \/ StrContains(requested[i], candidate[j])

\* C20: a candidate of the requested title is accepted on artist exactly
\* when some requested token substring-matches some candidate token, both
\* strings split on / , ; and the full-width comma and lower-cased; and
\* with no requested token, exactly when the candidate's artist is not empty
C20_ArtistAcceptedIffTokensMatch ==
  fn.called =>
    (fn.ret <=>
       IF TokensOnAllSeparators(fn.artists) # <<>>
       THEN SomeTokensMatch(TokensOnAllSeparators(fn.artists),
                            TokensOnAllSeparators(fn.artist))
       ELSE StrStrip(fn.artist, Whitespace) # <<>>)


-----------------------------------------------------------------------------
(* Claims about navidrome_song_exists *)

\* The candidates of the library that pass the three tests: the title,
\* trimmed and lower-cased, is the requested one; the artist matches; the
\* format is not mp3
PassingCandidates ==
  {k \in 1..Len(chk.library) :
     /\ StrLower(StrStrip(chk.library[k].title, Whitespace))
          = StrLower(StrStrip(chk.title, Whitespace))
     /\ artist_match(artist_tokens(chk.artists),
                     StrLower(StrStrip(chk.library[k].artist, Whitespace)))
     /\ get_file_type(chk.library[k]) # TypeMp3}

\* the first of them, in the order of the backend's answer
FirstPassing == CHOOSE k \in PassingCandidates : \A j \in PassingCandidates : k <= j

\* the album values a request can carry
RequestAlbums == {<<>>, <<"L">>, <<"M">>}

\* C21: navidrome_song_exists, answered by the backend, returns exists=true
\* on the first candidate that passes the title, artist and format tests,
\* with that candidate's format and size; it returns the empty record when
\* no candidate passes; and the same record whatever album is requested
C21_FirstPassingCandidate ==
  (chk.pc = "done" /\ chk.backend = "navidrome" /\ chk.answer = "ok") =>
    /\ IF PassingCandidates = {}
       THEN /\ ~chk.exists
            /\ chk.item = 0
            /\ chk.file_type = get_empty_result.file_type
            /\ chk.file_size = get_empty_result.file_size
       ELSE /\ chk.exists
            /\ chk.item = FirstPassing
            /\ chk.file_type = get_file_type(chk.library[FirstPassing])
            /\ chk.file_size = chk.library[FirstPassing].size
    /\ \A album \in RequestAlbums :
         navidrome_song_exists(chk.title, chk.artists, album, chk.answer,
                               chk.library).result
           = navidrome_song_exists(chk.title, chk.artists, chk.album, chk.answer,
                                   chk.library).result

\* two candidates pass, of different formats and sizes, and the first one
\* was reported, its title written in another case than the requested one
C21_Witness ==
  /\ chk.pc = "done" /\ chk.backend = "navidrome" /\ chk.answer = "ok"
  /\ PassingCandidates = {1, 2}
  /\ chk.library[1].size # chk.library[2].size
  /\ chk.library[1].title # chk.title
  /\ chk.exists
  /\ chk.file_size = chk.library[1].size


-----------------------------------------------------------------------------
(* SpecFile: download_music_file called on its own, over directories that  *)
(* hold nothing, a whole file or a part of a file at a target path         *)

MaxFileCalls == 2

\* <<music_id, quality>> of a call
FileCallInputs == TrackIds \X {"standard", "lossless"}

\* the file a whole transfer of the track puts on disk before the tags
WholeFile(music_id, quality) ==
  [size |-> InfoOf(music_id, quality).file_size, content |-> AudioBytes(music_id)]

\* The directory at start: empty, or holding at the target path of the
\* first track a whole file or what a broken transfer left
FileInitDirectories ==
  {EmptyMap,
   TargetPath(InfoOf(1, "lossless")) :> WholeFile(1, "lossless"),
   TargetPath(InfoOf(1, "lossless")) :>
     [size |-> InfoOf(1, "lossless").file_size \div 2,
      content |-> <<"p", "a", "r", "t">>]}

FnFile(called, input, o, fs, cache) ==
  [op |-> "download_music_file", called |-> called,
   music_id |-> input[1], quality |-> input[2],
   raised |-> o.raised, result |-> o.result, transfers |-> o.transfers,
   net |-> o.net, tags |-> o.tags,
   files_before |-> fs, cache_before |-> cache]

InitFile ==
  /\ files \in FileInitDirectories
  /\ file_hash_cache = EmptyMap
  /\ call = NoCall
  /\ before = NoFetch
  /\ ncalls = 0
  /\ ds = DsIdle
  /\ chk = ChkIdle
  /\ batch = BatchIdle
  /\ rt = RtIdle
  /\ fn = FnFile(0, <<0, "">>, FileEnd(FALSE, <<>>, Failed(<<>>), EmptyMap, EmptyMap, 0),
                 EmptyMap, EmptyMap)

\* a call of download_music_file(music_id, quality)
DownloadMusicFile ==
  /\ fn.called < MaxFileCalls
  /\ \E input \in FileCallInputs :
       \E o \in download_music_file(input[1], input[2], files, file_hash_cache) :
         /\ files' = o.files
         /\ file_hash_cache' = o.cache
         /\ fn' = FnFile(fn.called + 1, input, o, files, file_hash_cache)
  /\ UNCHANGED <<call, before, ncalls, ds, chk, batch, rt>>

NextFile == DownloadMusicFile

SpecFile == InitFile /\ [][NextFile]_vars

\* C22: when the audio bytes were written and the tag writer then failed
\* (cover art, embedding or tag saving), download_music_file still returns
\* success=true with the path of the written file, and the file is on disk
\* with the bytes that were written
C22_TagFailureKeepsSuccess ==
  (fn.called > 0 /\ fn.net = "ok" /\ fn.tags = "failed") =>
    /\ ~fn.raised
    /\ fn.result.success
    /\ fn.result.file_path = TargetPath(InfoOf(fn.music_id, fn.quality))
    /\ fn.result.file_path \in DOMAIN files
    /\ files[fn.result.file_path] = WholeFile(fn.music_id, fn.quality)

\* the bytes of the second track were written over an empty target path and
\* the tag writer failed
C22_Witness ==
  /\ fn.called > 0
  /\ fn.music_id = 2
  /\ fn.net = "ok"
  /\ fn.tags = "failed"
  /\ fn.result.success
  /\ fn.result.file_path \notin DOMAIN fn.files_before


\* file_path is set exactly when success is true, and error_message is not
\* empty exactly when success is false
WellFormed(result) ==
  /\ result.file_path # NoPath <=> result.success
  /\ result.error_message # <<>> <=> ~result.success

\* the tasks of download_music_file_async for one id over the directory, run
\* to their end
AsyncTasksHere(music_id, quality) ==
  UNION {
    LET task == async_start(music_id, quality, ans, files)
    IN IF task.pc = "done" THEN {task}
       ELSE {[task EXCEPT !.pc = "done",
                !.result = async_finish(music_id, quality, task.file_path, net,
                                        growth, files, file_hash_cache).result] :
               net \in NetOutcomes, growth \in TagGrowth}
    : ans \in InfoAnswers}

\* Every DownloadResult the four functions can produce when called over the
\* directory and the cache as they are
ResultsHere ==
  UNION {{o.result : o \in {e \in download_music_file(in[1], in[2], files, file_hash_cache) :
                              ~e.raised}} : in \in FileCallInputs}
  \cup UNION {{o.result : o \in download_song(in[1], in[2], in[3], files, file_hash_cache)} :
                in \in CallInputs}
  \cup UNION {{t.result : t \in {u \in AsyncTasksHere(in[1], in[2]) : ~u.raised}} :
                in \in FileCallInputs}
  \cup UNION {{process_results(<<in[1]>>, <<t>>)[1] : t \in AsyncTasksHere(in[1], in[2])} :
                in \in FileCallInputs}

\* C23: every DownloadResult of download_song, download_music_file,
\* download_music_file_async and download_batch_async has file_path set
\* exactly when success is true and a non-empty error_message exactly when
\* success is false: the result of the last call of download_music_file, and
\* every result the four can produce over the directory as it is now
C23_ResultsWellFormed ==
  /\ (fn.called > 0 /\ ~fn.raised) => WellFormed(fn.result)
  /\ \A result \in ResultsHere : WellFormed(result)

\* download_music_file has returned a failure after a broken transfer, and
\* over the directory it left a call can succeed and another can fail
C23_Witness ==
  /\ fn.called > 0
  /\ ~fn.raised
  /\ ~fn.result.success
  /\ fn.net = "broken"
  /\ \E r1, r2 \in ResultsHere : r1.success /\ ~r2.success


-----------------------------------------------------------------------------
(* SpecAggregate: download_songs over a download list that can hold a      *)
(* track twice or a track without an id, then the aggregation of run_task  *)

\* a playlist track that carries no id
TrackWithoutId ==
  [id |-> 0, name |-> <<"z">>, artists |-> <<"A">>, album |-> <<"L">>]

\* the download lists of at most n tracks
DownloadLists(n) ==
  UNION {[1..k -> {Track(i) : i \in TrackIds} \cup {TrackWithoutId}] : k \in 1..n}

InitAggregate ==
  /\ files = EmptyMap
  /\ file_hash_cache = EmptyMap
  /\ call = NoCall
  /\ before = NoFetch
  /\ ncalls = 0
  /\ \E songs_to_download \in DownloadLists(MaxSongs) :
       ds = songs_start(songs_to_download, "lossless")
  /\ chk = ChkIdle
  /\ batch = BatchIdle
  /\ rt = RtIdle
  /\ fn = FnIdle

\* run_task, lines 154-155: download_songs has returned and the failed list
\* is built
Aggregate ==
  /\ ds.pc = "returned"
  /\ fn = FnIdle
  /\ fn' = [op |-> "aggregate", songs_to_download |-> ds.songs,
            success_songs |-> ds.success_songs,
            failed_songs |-> failed_songs_of(ds.songs, ds.success_songs)]
  /\ UNCHANGED <<files, file_hash_cache, call, before, ncalls, ds, chk, batch, rt>>

NextAggregate == DownloadSongsStep \/ DownloadSongsReturn \/ Aggregate

SpecAggregate == InitAggregate /\ [][NextAggregate]_vars

\* the members of a list
Members(list) == {list[k] : k \in 1..Len(list)}

\* the failed list is the tracks of the download list that are not in the
\* successful list, in their order
FailedIsTheRest ==
  fn.failed_songs
    = SelectSeq(fn.songs_to_download, LAMBDA s : s \notin Members(fn.success_songs))

\* C24: after the aggregation the failed list is exactly the tracks of the
\* download list that are not in the successful list, the two lists are
\* disjoint, together they are the download list, and their lengths add up
\* to the number of tracks handed to download_songs; a track without an id
\* was never attempted and is in the failed list
C24_SuccessPlusFailedIsAll ==
  fn.op = "aggregate" =>
    /\ FailedIsTheRest
    /\ Members(fn.success_songs) \cap Members(fn.failed_songs) = {}
    /\ Members(fn.success_songs) \cup Members(fn.failed_songs)
         = Members(fn.songs_to_download)
    /\ Len(fn.success_songs) + Len(fn.failed_songs) = Len(fn.songs_to_download)
    /\ \A k \in 1..Len(fn.songs_to_download) :
         fn.songs_to_download[k].id = 0 =>
           /\ \A j \in 1..Len(ds.attempts) : ds.attempts[j].index # k
           /\ fn.songs_to_download[k] \in Members(fn.failed_songs)


-----------------------------------------------------------------------------
(* SpecInfo: get_music_info called on its own, over every combination of   *)
(* answers of the three upstream lookups                                   *)

\* what upstream answers the URL, the detail and the lyric lookup
AllInfoAnswers == [url : UrlAnswers, detail : DetailAnswers, lyric : LyricAnswers]

InitInfo ==
  /\ files = EmptyMap
  /\ file_hash_cache = EmptyMap
  /\ call = NoCall
  /\ before = NoFetch
  /\ ncalls = 0
  /\ ds = DsIdle
  /\ chk = ChkIdle
  /\ batch = BatchIdle
  /\ rt = RtIdle
  /\ \E music_id \in TrackIds, quality \in {"standard", "lossless", "hires"},
        ans \in AllInfoAnswers :
       fn = [op |-> "get_music_info", music_id |-> music_id, quality |-> quality,
             ans |-> ans, called |-> FALSE, raised |-> FALSE, exc |-> "",
             info |-> NoInfo]

\* a call of get_music_info(music_id, quality)
GetMusicInfo ==
  /\ ~fn.called
  /\ LET mi == get_music_info(fn.music_id, fn.quality, fn.ans)
     IN fn' = [fn EXCEPT !.called = TRUE, !.raised = mi.raised, !.exc = mi.exc,
                         !.info = mi.info]
  /\ UNCHANGED <<files, file_hash_cache, call, before, ncalls, ds, chk, batch, rt>>

NextInfo == GetMusicInfo

SpecInfo == InitInfo /\ [][NextInfo]_vars

\* C25: get_music_info returns a MusicInfo of the track whose download_url
\* is not empty, or raises; what it raises is a DownloadException; it raises
\* when the URL lookup gives no data or an empty url and when the detail
\* lookup gives no song entry, and returns when all three lookups answer
C25_InfoOrDownloadException ==
  fn.called =>
    /\ fn.raised => fn.exc = "DownloadException"
    /\ ~fn.raised => (fn.info.id = fn.music_id /\ fn.info.download_url # <<>>)
    /\ fn.ans.url \in {"no_data", "no_url"} => fn.raised
    /\ (fn.ans.url = "ok" /\ fn.ans.detail = "no_songs") => fn.raised
    /\ (fn.ans.url = "ok" /\ fn.ans.detail = "ok" /\ fn.ans.lyric = "ok") => ~fn.raised

\* the URL lookup gave an entry without url and DownloadException was raised
C25_Witness ==
  /\ fn.called
  /\ fn.ans.url = "no_url"
  /\ fn.raised
  /\ fn.exc = "DownloadException"


-----------------------------------------------------------------------------
(* SpecSplit: MySQLChecker._split_artists called on its own                *)

MaxSplitLen == 4

\* three names joined by a full-width comma with a blank after it and by a
\* slash between blanks (the names stand for those of three artists)
ThreeArtists ==
  <<"z", "j", "l", FullWidthComma, " ", "f", "y", "q", " ", "/", " ", "q", "x">>

\* The artist strings: the three names, and every string of a letter, the
\* blank and the three separators up to MaxSplitLen characters
SplitInputs ==
  {ThreeArtists} \cup SeqsUpTo({"a", " ", ",", FullWidthComma, "/"}, MaxSplitLen)

InitSplit ==
  /\ files = EmptyMap
  /\ file_hash_cache = EmptyMap
  /\ call = NoCall
  /\ before = NoFetch
  /\ ncalls = 0
  /\ ds = DsIdle
  /\ chk = ChkIdle
  /\ batch = BatchIdle
  /\ rt = RtIdle
  /\ \E artists_str \in SplitInputs :
       fn = [op |-> "split_artists", artists_str |-> artists_str,
             called |-> FALSE, ret |-> <<>>]

\* a call of _split_artists(artists_str)
SplitArtists ==
  /\ ~fn.called
  /\ \E unique_artists \in split_artists_list(fn.artists_str) :
       fn' = [fn EXCEPT !.called = TRUE, !.ret = unique_artists]
  /\ UNCHANGED <<files, file_hash_cache, call, before, ncalls, ds, chk, batch, rt>>

NextSplit == SplitArtists

SpecSplit == InitSplit /\ [][NextSplit]_vars

\* C26: the list _split_artists returns holds no token twice, no empty
\* token and no token that starts or ends with a blank; for the three names
\* joined by a full-width comma and a slash it holds exactly the three names
C26_SplitArtistsTokens ==
  fn.called =>
    /\ \A i, j \in 1..Len(fn.ret) : fn.ret[i] = fn.ret[j] => i = j
    /\ \A i \in 1..Len(fn.ret) :
         /\ fn.ret[i] # <<>>
         /\ Head(fn.ret[i]) \notin Whitespace
         /\ fn.ret[i][Len(fn.ret[i])] \notin Whitespace
    /\ fn.artists_str = ThreeArtists =>
         /\ Len(fn.ret) = 3
         /\ {fn.ret[i] : i \in 1..Len(fn.ret)}
              = {<<"z", "j", "l">>, <<"f", "y", "q">>, <<"q", "x">>}

\* a string that names the same artist twice, between different separators
\* and blanks, was split into the one name
C26_Witness ==
  /\ fn.called
  /\ fn.artists_str = <<"a", FullWidthComma, " ", "a">>
  /\ fn.ret = << <<"a">> >>


\* what a broken transfer leaves
Truncated(file) == file.content = <<"p", "a", "r", "t">>

\* C27: no part of a file is ever left under the final file name of a
\* track: after a transfer that broke off, the final path is absent or holds
\* the whole file, and a success that download_music_file returns never
\* names a file that a broken transfer left
C27_NoPartialFileLeft ==
  LET file_path == TargetPath(InfoOf(fn.music_id, fn.quality))
  IN /\ (fn.called > 0 /\ fn.net = "broken") =>
          (file_path \in DOMAIN files => ~Truncated(files[file_path]))
     /\ (fn.called > 1 /\ ~fn.raised /\ fn.result.success
           /\ fn.files_before # EmptyMap) =>
          ~Truncated(files[fn.result.file_path])


-----------------------------------------------------------------------------
(* SpecCache: one run of a SongDownloader in which files are verified and  *)
(* downloaded, with the hashes of files counted                            *)

MaxCacheCalls == 3

\* The track records of the calls: as upstream states them, and with no
\* size stated
CacheInfos ==
  {InfoOf(in[1], in[2]) : in \in FileCallInputs}
  \cup {[InfoOf(1, "lossless") EXCEPT !.file_size = 0]}

\* The directory at start: empty, or holding under the name of the first
\* track a whole file, what a broken transfer left, or a file of half the
\* stated size that holds the identity string of the track
CacheInitDirectories ==
  FileInitDirectories
  \cup {TargetPath(InfoOf(1, "lossless")) :>
          [size |-> InfoOf(1, "lossless").file_size \div 2,
           content |-> IdentityString(InfoOf(1, "lossless"))]}

\* how often _calculate_file_hash has read the file at the path
HashCount(hashes, file_path) ==
  IF file_path \in DOMAIN hashes THEN hashes[file_path] ELSE 0

Hashed(hashes, file_path) ==
  (file_path :> HashCount(hashes, file_path) + 1) @@ hashes

InitCache ==
  /\ files \in CacheInitDirectories
  /\ file_hash_cache = EmptyMap
  /\ call = NoCall
  /\ before = NoFetch
  /\ ncalls = 0
  /\ ds = DsIdle
  /\ chk = ChkIdle
  /\ batch = BatchIdle
  /\ rt = RtIdle
  /\ fn = [op |-> "start", called |-> 0, hashes |-> EmptyMap, file_path |-> NoPath,
           music_info |-> InfoOf(1, "lossless"), ret |-> FALSE, fresh |-> FALSE]

\* _verify_file_integrity(file_path, music_info) is called on a file that
\* the scan of the names of the track found
CacheVerify ==
  /\ fn.called < MaxCacheCalls
  /\ \E music_info \in CacheInfos, i \in DOMAIN possible_extensions :
       LET file_path == sanitize_filename(BaseFilename(music_info)) \o possible_extensions[i]
       IN /\ file_path \in DOMAIN files
          /\ LET v == verify_file_integrity(file_path, music_info, files, file_hash_cache)
             IN /\ file_hash_cache' = v.cache
                /\ fn' = [op |-> "verify", called |-> fn.called + 1,
                          hashes |-> IF v.hashed THEN Hashed(fn.hashes, file_path)
                                     ELSE fn.hashes,
                          file_path |-> file_path, music_info |-> music_info,
                          ret |-> v.ret, fresh |-> FALSE]
  /\ UNCHANGED <<files, call, before, ncalls, ds, chk, batch, rt>>

\* download_music_file(music_id, quality) is called; after a whole transfer
\* it reads the file once for the cache (line 653)
CacheDownload ==
  /\ fn.called < MaxCacheCalls
  /\ \E input \in FileCallInputs :
       \E o \in download_music_file(input[1], input[2], files, file_hash_cache) :
         /\ files' = o.files
         /\ file_hash_cache' = o.cache
         /\ fn' = [op |-> "download", called |-> fn.called + 1,
                   hashes |-> IF o.net = "ok" THEN Hashed(fn.hashes, o.result.file_path)
                              ELSE fn.hashes,
                   file_path |-> o.result.file_path,
                   music_info |-> InfoOf(input[1], input[2]),
                   ret |-> o.result.success, fresh |-> o.net = "ok"]
  /\ UNCHANGED <<call, before, ncalls, ds, chk, batch, rt>>

NextCache == CacheVerify \/ CacheDownload

SpecCache == InitCache /\ [][NextCache]_vars

\* the verifier was called on a file whose size is not less than 1% off a
\* positive stated size
VerifiedByHash ==
  /\ fn.op = "verify"
  /\ ~(fn.music_info.file_size > 0
       /\ Abs(files[fn.file_path].size - fn.music_info.file_size) * 100
            < fn.music_info.file_size)

\* C28: outside the 1% tolerance, or with no stated size, the verifier
\* accepts exactly when the hash of the file equals the hash of the identity
\* string of the track; in one run the hash of a file is computed at most
\* once for a path; and after a fresh successful download the cache holds for
\* the new path the hash of the file as it is on disk, tags included
C28_HashDecidesAndIsCached ==
  /\ VerifiedByHash =>
       (fn.ret <=> calculate_file_hash(fn.file_path, files)
                     = Md5(IdentityString(fn.music_info)))
  /\ \A file_path \in DOMAIN fn.hashes : fn.hashes[file_path] <= 1
  /\ (fn.op = "download" /\ fn.fresh) =>
       /\ fn.ret
       /\ fn.file_path \in DOMAIN file_hash_cache
       /\ file_hash_cache[fn.file_path] = Md5(files[fn.file_path].content)

\* a file was verified by its hash a second time and accepted, its hash
\* having been computed once
C28_Witness ==
  /\ VerifiedByHash
  /\ fn.called = MaxCacheCalls
  /\ fn.ret
  /\ fn.hashes = (fn.file_path :> 1)


\* C29: in download_batch_async no two tasks in flight ever write the same
\* final path or the same key of the hash cache, also when the id list holds
\* an id twice: two tasks that have passed the exists-check and not yet
\* written never hold the same path
C29_NoTwoTasksOnePath ==
  \A j, k \in InFlight(batch.tasks) :
    j # k => batch.tasks[j].file_path # batch.tasks[k].file_path


\* the target path of the last call held a file when the call was made
TargetExisted ==
  /\ fn.called > 0
  /\ ~fn.raised
  /\ TargetPath(InfoOf(fn.music_id, fn.quality)) \in DOMAIN fn.files_before

\* C30: download_music_file and download_music_file_async, called when a
\* file exists at the target path, return success with the path and the
\* current size of that file, transfer nothing, and leave the bytes of the
\* file and the hash cache as they were
C30_ExistingFileIsLeftAlone ==
  /\ TargetExisted =>
       LET file_path == TargetPath(InfoOf(fn.music_id, fn.quality))
       IN /\ fn.result = DownloadResult(TRUE, file_path,
                                        fn.files_before[file_path].size, <<>>)
          /\ fn.transfers = 0
          /\ files = fn.files_before
          /\ file_hash_cache = fn.cache_before
  /\ \A in \in FileCallInputs, ans \in InfoAnswers :
       LET mi == get_music_info(in[1], in[2], ans)
           task == async_start(in[1], in[2], ans, files)
       IN (~mi.raised /\ TargetPath(mi.info) \in DOMAIN files) =>
            /\ task.pc = "done"
            /\ ~task.raised
            /\ task.result = DownloadResult(TRUE, TargetPath(mi.info),
                                            files[TargetPath(mi.info)].size, <<>>)

\* the second call found the file that the first call had written and
\* tagged, and returned it with the size it has with its tags
C30_Witness ==
  /\ TargetExisted
  /\ fn.called = 2
  /\ fn.files_before # EmptyMap
  /\ fn.cache_before # EmptyMap
  /\ fn.result.success
  /\ fn.result.file_size = WholeFile(fn.music_id, fn.quality).size + 10

====
